---- MODULE Spec2Model ----
(***************************************************************************)
(* Model of the music bot's search pipeline (services/music_service.py)    *)
(* and of its per-user search cache (db/search_cache.py).                  *)
(*                                                                         *)
(* Strings are sequences of one-character strings.  Optional values are    *)
(* tagged records so that None and a string can be compared.               *)
(***************************************************************************)
EXTENDS Integers, Sequences, FiniteSets, TLC

(***************************************************************************)
(* Bounds of the model.                                                    *)
(***************************************************************************)
\* longest provider response, in items
MaxItems == 2
\* largest limit passed to search
MaxLimit == 2
\* clock ticks in one hour
TicksPerHour == 2
\* last clock value
MaxTime == 3
\* number of save_search calls in one behaviour
MaxSaves == 2
\* largest offset passed to update_offset
MaxOffset == 1
\* length of the longest track list a search of the handlers returns
MaxTracks == 11

\* advertisements in the table
MaxAds == 2

\* the largest Telegram id that issues a command or is named in one
MaxAdminId == 3

\* rows of the users table
MaxUsers == 10

\* advertisements saved by ad-creation dialogs
MaxSavedAds == 1

\* calls of check_and_show_ad per user
MaxAdCalls == 10

(***************************************************************************)
(* Generic helpers.                                                        *)
(***************************************************************************)
Max2(a, b) == IF a >= b THEN a ELSE b

Min2(a, b) == IF a <= b THEN a ELSE b

Range(s) == {s[i] : i \in 1..Len(s)}

\* Python's s[:n] for any integer n
SliceTo(s, n) ==
    IF n >= 0 THEN SubSeq(s, 1, Min2(n, Len(s)))
    ELSE SubSeq(s, 1, Max2(0, Len(s) + n))

\* all sequences over S of length 0..n
RECURSIVE SeqsUpTo(_, _)
SeqsUpTo(S, n) ==
    IF n = 0 THEN {<<>>}
    ELSE LET shorter == SeqsUpTo(S, n - 1)
         IN shorter \cup {Append(s, x) : s \in {t \in shorter : Len(t) = n - 1}, x \in S}

(***************************************************************************)
(* Python strings: str.lower(), str.strip(), substring test.               *)
(***************************************************************************)
LowerChar(c) ==
    CASE c = "A" -> "a"
      [] c = "B" -> "b"
      [] c = "C" -> "c"
      [] c = "U" -> "u"
      [] OTHER -> c

Lower(s) == [i \in 1..Len(s) |-> LowerChar(s[i])]

IsSpace(c) == c = " "

RECURSIVE LStrip(_)
LStrip(s) == IF s # <<>> /\ IsSpace(Head(s)) THEN LStrip(Tail(s)) ELSE s

RECURSIVE RStrip(_)
RStrip(s) ==
    IF s # <<>> /\ IsSpace(s[Len(s)]) THEN RStrip(SubSeq(s, 1, Len(s) - 1)) ELSE s

Strip(s) == RStrip(LStrip(s))

\* Python's `sub in s`
Contains(s, sub) ==
    \E i \in 0..(Len(s) - Len(sub)) : SubSeq(s, i + 1, i + Len(sub)) = sub

(***************************************************************************)
(* fuzzywuzzy: fuzz.ratio and fuzz.partial_ratio.  The similarity of two   *)
(* strings is 2*M/T, M the number of matched characters (the longest       *)
(* common subsequence, as the Levenshtein matcher counts them) and T the   *)
(* sum of the lengths; the result is the percentage rounded to the nearest *)
(* integer, halves to even as Python's round does.                         *)
(***************************************************************************)
SetMax(S) == CHOOSE m \in S : \A x \in S : x <= m

\* one row of the LCS table from the row above: the character c of s is
\* either left unmatched or matched with an equal character t[k], k <= j
LcsRow(prev, c, t) ==
    <<>> \o [j \in 1..Len(t) |->
                SetMax({prev[j]} \cup {(IF k = 1 THEN 0 ELSE prev[k - 1]) + 1 :
                                          k \in {k \in 1..j : t[k] = c}})]

RECURSIVE LcsRows(_, _, _, _)
LcsRows(s, t, i, prev) ==
    IF i > Len(s) THEN prev
    ELSE LcsRows(s, t, i + 1, LcsRow(prev, s[i], t))

Matches(s, t) ==
    IF s = <<>> \/ t = <<>> THEN 0
    ELSE LcsRows(s, t, 1, [j \in 1..Len(t) |-> 0])[Len(t)]

\* int(round(100 * num / den))
RoundPercent(num, den) ==
    LET x == 100 * num
        q == x \div den
        r == x % den
    IN IF 2 * r > den THEN q + 1
       ELSE IF 2 * r = den THEN q + (q % 2)
       ELSE q

Ratio(s1, s2) ==
    IF s1 = <<>> \/ s2 = <<>> THEN 0
    ELSE RoundPercent(2 * Matches(s1, s2), Len(s1) + Len(s2))

PartialRatio(s1, s2) ==
    IF s1 = s2 THEN 100
    ELSE IF s1 = <<>> \/ s2 = <<>> THEN 0
    ELSE LET shorter == IF Len(s1) <= Len(s2) THEN s1 ELSE s2
             longer == IF Len(s1) <= Len(s2) THEN s2 ELSE s1
             n == Len(shorter)
             scores == {RoundPercent(2 * Matches(shorter, SubSeq(longer, i + 1, i + n)), 2 * n) :
                           i \in 0..(Len(longer) - n)}
         IN SetMax(scores)

(***************************************************************************)
(* Values: Python's None, strings, JSON numbers, JSON objects and the      *)
(* absence of a key in a JSON object.                                      *)
(***************************************************************************)
None == [tag |-> "none", val |-> <<>>]

Str(s) == [tag |-> "str", val |-> s]

Num(n) == [tag |-> "num", val |-> <<n>>]

Obj(name) == [tag |-> "obj", val |-> <<name>>]

Absent == [tag |-> "absent", val |-> <<>>]

\* dict.get(key, default): the default only when the key is missing
DictGet(v, default) == IF v.tag = "absent" THEN default ELSE v

\* dict.get(key): None when the key is missing
DictGetOpt(v) == DictGet(v, None)

Unknown == <<"U", "n", "k", "n", "o", "w", "n">>

Digit(n) == CASE n = 0 -> "0" [] n = 1 -> "1" [] n = 2 -> "2" [] n = 3 -> "3"
              [] n = 4 -> "4" [] n = 5 -> "5" [] n = 6 -> "6" [] n = 7 -> "7"
              [] n = 8 -> "8" [] n = 9 -> "9"

RECURSIVE Digits(_)
Digits(n) == IF n < 10 THEN <<Digit(n)>> ELSE Append(Digits(n \div 10), Digit(n % 10))

\* Python's str(v)
PyStr(v) ==
    CASE v.tag = "str" -> v.val
      [] v.tag = "num" -> Digits(v.val[1])
      [] v.tag = "none" -> <<"N", "o", "n", "e">>

(***************************************************************************)
(* models/track.py: the Track dataclass.                                   *)
(***************************************************************************)
Track(title, artist, duration, preview_url, audio_url, album, artwork_url, track_id, source) ==
    [title |-> title, artist |-> artist, duration |-> duration,
     preview_url |-> preview_url, audio_url |-> audio_url, album |-> album,
     artwork_url |-> artwork_url, track_id |-> track_id, source |-> source]

(***************************************************************************)
(* The provider responses the model draws from.  An iTunes item is a JSON  *)
(* object with the keys the code reads; so is a Deezer item.               *)
(***************************************************************************)
UrlP == <<"p">>

ItunesItem(trackName, artistName, trackTimeMillis, previewUrl, trackId) ==
    [trackName |-> trackName, artistName |-> artistName,
     trackTimeMillis |-> trackTimeMillis, previewUrl |-> previewUrl,
     collectionName |-> Absent, artworkUrl100 |-> Absent, trackId |-> trackId]

ItunesItems ==
    { ItunesItem(Str(<<"a", "b">>), Str(<<"c">>), Num(2500), Str(UrlP), Num(7)),
      ItunesItem(Str(<<"b">>), Str(<<"a">>), Absent, Absent, Absent),
      ItunesItem(None, Str(<<"c">>), Num(0), Str(UrlP), Num(8)),
      ItunesItem(Absent, Str(<<"c">>), None, Absent, Num(9)) }

DeezerItem(title, artist, duration, preview, id) ==
    [title |-> title, artist |-> artist, duration |-> duration, preview |-> preview,
     album |-> Absent, id |-> id]

DeezerItems ==
    { DeezerItem(Str(<<"A", "B", " ">>), Obj(Str(<<"C">>)), Num(2), Str(UrlP), Num(3)),
      DeezerItem(Str(<<"a", "b", "b">>), Obj(Str(<<"c">>)), Num(2), Absent, Num(4)),
      DeezerItem(Absent, Obj(Str(<<"c">>)), Absent, Absent, Absent),
      DeezerItem(Str(<<>>), None, Num(1), Absent, Num(5)) }

Providers == {"itunes", "deezer"}

Failures == {"status", "javascript", "timeout", "error"}

\* an HTTP exchange: how it ended and, when a JSON body arrived, its items
ItunesResponses ==
    {[kind |-> k, items |-> <<>>] : k \in Failures}
        \cup {[kind |-> "ok", items |-> s] : s \in SeqsUpTo(ItunesItems, MaxItems)}

DeezerResponses ==
    {[kind |-> k, items |-> <<>>] : k \in Failures \ {"javascript"}}
        \cup {[kind |-> "ok", items |-> s] : s \in SeqsUpTo(DeezerItems, MaxItems)}

Queries == {<<"a", "b">>, <<"C">>}

\* the limits search is called with, a negative one and zero included
Limits == (0 - 1)..MaxLimit

(***************************************************************************)
(* MusicService._search_itunes and _search_deezer: the mapping of one item *)
(* to a Track, the exceptions it can raise, and the list (or the empty     *)
(* list after a caught failure) the coroutine returns.                     *)
(***************************************************************************)
\* item.get("trackTimeMillis", 0) // 1000 raises TypeError on a non-number
ItunesItemRaises(item) == DictGet(item.trackTimeMillis, Num(0)).tag # "num"

ItunesTrack(item) ==
    Track(DictGet(item.trackName, Str(Unknown)),
          DictGet(item.artistName, Str(Unknown)),
          DictGet(item.trackTimeMillis, Num(0)).val[1] \div 1000,
          DictGetOpt(item.previewUrl),
          DictGetOpt(item.previewUrl),
          DictGetOpt(item.collectionName),
          DictGetOpt(item.artworkUrl100),
          Str(PyStr(DictGet(item.trackId, Str(<<>>)))),
          Str(<<"i", "t", "u", "n", "e", "s">>))

\* item.get("artist", {}).get("name", ...) raises AttributeError when the
\* value of "artist" (or of "album") is null
DeezerItemRaises(item) == item.artist.tag = "none" \/ item.album.tag = "none"

\* item.get(key, {}).get(sub, default)
SubGet(v, default) == IF v.tag = "absent" THEN default ELSE DictGet(v.val[1], default)

DeezerTrack(item) ==
    Track(DictGet(item.title, Str(Unknown)),
          SubGet(item.artist, Str(Unknown)),
          DictGet(item.duration, Num(0)).val[1],
          DictGetOpt(item.preview),
          DictGetOpt(item.preview),
          SubGet(item.album, None),
          SubGet(item.album, None),
          Str(PyStr(DictGet(item.id, Str(<<>>)))),
          Str(<<"d", "e", "e", "z", "e", "r">>))

\* how the coroutine ended: "ok" when it returned the mapped tracks, else the
\* branch that returned the empty list
SearchItunesOutcome(resp) ==
    IF resp.kind # "ok" THEN resp.kind
    ELSE IF \E i \in 1..Len(resp.items) : ItunesItemRaises(resp.items[i]) THEN "error"
    ELSE "ok"

\* mutant of SearchItunes: after an item raised, the tracks mapped from the
\* other items are returned instead of the empty list
SearchItunesPartial(resp) ==
    IF resp.kind # "ok" THEN <<>>
    ELSE LET good == SelectSeq(resp.items, LAMBDA item : ~ItunesItemRaises(item))
         IN [i \in 1..Len(good) |-> ItunesTrack(good[i])]

SearchItunes(resp) ==
    IF SearchItunesOutcome(resp) = "ok"
    THEN [i \in 1..Len(resp.items) |-> ItunesTrack(resp.items[i])]
    ELSE <<>>

SearchDeezerOutcome(resp) ==
    IF resp.kind # "ok" THEN resp.kind
    ELSE IF \E i \in 1..Len(resp.items) : DeezerItemRaises(resp.items[i]) THEN "error"
    ELSE "ok"

SearchDeezer(resp) ==
    IF SearchDeezerOutcome(resp) = "ok"
    THEN [i \in 1..Len(resp.items) |-> DeezerTrack(resp.items[i])]
    ELSE <<>>

(***************************************************************************)
(* MusicService._deduplicate_tracks.                                       *)
(***************************************************************************)
\* the 85% similarity threshold
SimilarityThreshold == 85

\* f"{track.title.lower().strip()}_{track.artist.lower().strip()}"
NormKey(track) ==
    Strip(Lower(track.title.val)) \o <<"_">> \o Strip(Lower(track.artist.val))

\* .lower() on a title or artist that is not a string raises AttributeError
KeyRaises(track) == track.title.tag # "str" \/ track.artist.tag # "str"

\* mutant of IsDuplicate: only an identical key counts as a duplicate
IsDuplicateExact(key, seen) == key \in seen

\* mutant of IsDuplicate: a similarity equal to the threshold counts as well
IsDuplicateAtThreshold(key, seen) ==
    \E seen_key \in seen : Ratio(key, seen_key) >= SimilarityThreshold

IsDuplicate(key, seen) == \E seen_key \in seen : Ratio(key, seen_key) > SimilarityThreshold

RECURSIVE DedupFrom(_, _, _, _)
DedupFrom(tracks, i, unique_tracks, seen_combinations) ==
    IF i > Len(tracks) THEN unique_tracks
    ELSE LET key == NormKey(tracks[i])
         IN IF IsDuplicate(key, seen_combinations)
            THEN DedupFrom(tracks, i + 1, unique_tracks, seen_combinations)
            ELSE DedupFrom(tracks, i + 1, Append(unique_tracks, tracks[i]),
                           seen_combinations \cup {key})

\* mutant of DeduplicateTracks: the loop starts at the second track
DeduplicateTracksFromSecond(tracks) == DedupFrom(tracks, 2, <<>>, {})

DeduplicateTracks(tracks) == DedupFrom(tracks, 1, <<>>, {})

\* the loop computes the key of every track, so one bad track raises
DeduplicateRaises(tracks) == \E i \in 1..Len(tracks) : KeyRaises(tracks[i])

(***************************************************************************)
(* MusicService._sort_by_relevance.                                        *)
(***************************************************************************)
ExactBonus == 20

\* mutant of CalculateScore: the bonus is given for a match in the title only
CalculateScoreTitleBonus(track, query) ==
    LET query_lower == Lower(query)
        title_lower == Lower(track.title.val)
        artist_lower == Lower(track.artist.val)
    IN Max2(Max2(PartialRatio(query_lower, title_lower),
                 PartialRatio(query_lower, artist_lower)),
            PartialRatio(query_lower, artist_lower \o <<" ">> \o title_lower))
       + (IF Contains(title_lower, query_lower) THEN ExactBonus ELSE 0)

CalculateScore(track, query) ==
    LET query_lower == Lower(query)
        title_lower == Lower(track.title.val)
        artist_lower == Lower(track.artist.val)
        title_score == PartialRatio(query_lower, title_lower)
        artist_score == PartialRatio(query_lower, artist_lower)
        combined_score == PartialRatio(query_lower, artist_lower \o <<" ">> \o title_lower)
        exact_bonus == IF Contains(title_lower, query_lower) \/ Contains(artist_lower, query_lower)
                       THEN ExactBonus ELSE 0
    IN Max2(Max2(title_score, artist_score), combined_score) + exact_bonus

\* calculate_score calls .lower() on the title and the artist of every track
SortByRelevanceRaises(tracks) == \E i \in 1..Len(tracks) : KeyRaises(tracks[i])

\* sorted(..., reverse=True) is stable: a track goes after every track already
\* placed whose score is at least its own
RECURSIVE InsertByScore(_, _, _)
InsertByScore(sorted, track, query) ==
    IF sorted = <<>> THEN <<track>>
    ELSE IF CalculateScore(Head(sorted), query) >= CalculateScore(track, query)
         THEN <<Head(sorted)>> \o InsertByScore(Tail(sorted), track, query)
         ELSE <<track>> \o sorted

RECURSIVE SortFrom(_, _, _, _)
SortFrom(tracks, i, sorted, query) ==
    IF i > Len(tracks) THEN sorted
    ELSE SortFrom(tracks, i + 1, InsertByScore(sorted, tracks[i], query), query)

\* mutant of SortByRelevance: the tracks are left in their input order
SortByRelevanceUnsorted(tracks, query) == tracks

SortByRelevance(tracks, query) == SortFrom(tracks, 1, <<>>, query)

Reverse(s) == [i \in 1..Len(s) |-> s[Len(s) + 1 - i]]

\* mutant of SortOutcomes: an unstable sort, tracks of equal score come out in
\* either order
SortOutcomesUnstable(tracks, query) ==
    {SortByRelevance(tracks, query), Reverse(SortByRelevance(Reverse(tracks), query))}

\* the lists sorted(tracks, key=calculate_score, reverse=True) can return:
\* the sort is stable and the score depends on the track and the query only
SortOutcomes(tracks, query) == {SortByRelevance(tracks, query)}

(***************************************************************************)
(* MusicService.search: the two provider coroutines run under              *)
(* asyncio.gather and settle in either order; once both have settled the   *)
(* rest of the call runs without suspension.                               *)
(***************************************************************************)
VARIABLES
    query,      \* argument of search
    limit,      \* argument of search
    outcome,    \* per provider: "pending", or how its coroutine ended
    results,    \* per provider: the list its coroutine returned
    settled,    \* the providers in the order their coroutines ended
    pc,         \* "idle", "gather", "done" (search returned) or "raised"
    ret,        \* the value search returned
    rows,       \* the search_cache table
    now,        \* datetime.utcnow(), in ticks
    nextId,     \* the next autoincrement id of search_cache
    last,       \* the last repository call and what it returned
    tasks,      \* the repository calls in progress, one per request task
    chat,       \* per user: the bot's messages with a keyboard, oldest first
    user_track_counter, \* handlers/search.py: the dict of per-user counters
    adCalls,    \* per user: how many times check_and_show_ad was called
    ads,        \* the advertisements table
    admins,     \* the admins table
    fsm,        \* per user: the FSM state and data of the ad-creation dialog
    users,      \* the ids of the users table
    broadcast   \* cmd_broadcast: its position, its counters and its deliveries

searchVars == <<query, limit, outcome, results, settled, pc, ret>>

cacheVars == <<rows, now, nextId, last, tasks>>

botVars == <<chat, user_track_counter, adCalls, ads, admins, fsm, users, broadcast>>

vars == <<query, limit, outcome, results, settled, pc, ret, rows, now, nextId, last, tasks,
          chat, user_track_counter, adCalls, ads, admins, fsm, users, broadcast>>

\* mutant of AllTracks: the iTunes tracks are put in front one by one
AllTracksPrepended(res) == Reverse(res["itunes"]) \o res["deezer"]

\* results of gather, in argument order
AllTracks(res) == res["itunes"] \o res["deezer"]

\* mutant of SearchReturn: the [:limit] slice is missing
SearchReturnUncapped(res, q, l) == SortByRelevance(DeduplicateTracks(AllTracks(res)), q)

SearchReturn(res, q, l) == SliceTo(SortByRelevance(DeduplicateTracks(AllTracks(res)), q), l)

Users == {1, 2}

\* user_track_counter = {}
NoCounters == [u \in {} |-> 0]

\* no FSM state is set and no data is stored
NoDialog ==
    [state |-> "none", data |-> [ad_type |-> Absent, text |-> Absent, file_id |-> Absent]]

\* no cmd_broadcast is running
NoBroadcast == [pc |-> "idle", users |-> <<>>, i |-> 0, sent |-> 0, failed |-> 0,
                attempts |-> <<>>]

NoCall == [op |-> "none", user |-> 0, tracks |-> <<>>, offset |-> 0,
           result |-> [tag |-> "void", val |-> <<>>], caches |-> {}]

TaskIds == {"t1", "t2"}

IdleTask ==
    [pc |-> "idle", op |-> "none", user |-> 0, query |-> <<>>, tracks |-> <<>>,
     offset |-> 0, caches |-> {}, msg |-> 0]

\* a call of search begins; the table is empty and no repository call runs
SearchInit ==
    /\ query \in Queries
    /\ limit \in Limits
    /\ outcome = [p \in Providers |-> "pending"]
    /\ results = [p \in Providers |-> <<>>]
    /\ settled = <<>>
    /\ pc = "gather"
    /\ ret = <<>>
    /\ rows = {}
    /\ now = 0
    /\ nextId = 1
    /\ last = NoCall
    /\ tasks = [t \in TaskIds |-> IdleTask]
    /\ chat = [u \in Users |-> <<>>]
    /\ user_track_counter = NoCounters
    /\ adCalls = [u \in Users |-> 0]
    /\ ads = {}
    /\ admins = {}
    /\ fsm = [u \in Users |-> NoDialog]
    /\ users = {}
    /\ broadcast = NoBroadcast

ItunesSettles ==
    /\ pc = "gather"
    /\ outcome["itunes"] = "pending"
    /\ \E resp \in ItunesResponses :
          /\ outcome' = [outcome EXCEPT !["itunes"] = SearchItunesOutcome(resp)]
          /\ results' = [results EXCEPT !["itunes"] = SearchItunes(resp)]
    /\ settled' = Append(settled, "itunes")
    /\ UNCHANGED <<query, limit, pc, ret>>
    /\ UNCHANGED cacheVars
    /\ UNCHANGED botVars

DeezerSettles ==
    /\ pc = "gather"
    /\ outcome["deezer"] = "pending"
    /\ \E resp \in DeezerResponses :
          /\ outcome' = [outcome EXCEPT !["deezer"] = SearchDeezerOutcome(resp)]
          /\ results' = [results EXCEPT !["deezer"] = SearchDeezer(resp)]
    /\ settled' = Append(settled, "deezer")
    /\ UNCHANGED <<query, limit, pc, ret>>
    /\ UNCHANGED cacheVars
    /\ UNCHANGED botVars

\* mutant of GatherDone: the first call to settle ends the wait
GatherDoneFirstSettled(o) == \E p \in Providers : o[p] # "pending"

\* asyncio.gather with return_exceptions=True returns when every call has
\* settled
GatherDone(o) == \A p \in Providers : o[p] # "pending"

SearchFinishes ==
    /\ pc = "gather"
    /\ GatherDone(outcome)
    /\ IF DeduplicateRaises(AllTracks(results))
       THEN pc' = "raised" /\ ret' = ret
       ELSE pc' = "done" /\ ret' = SearchReturn(results, query, limit)
    /\ UNCHANGED <<query, limit, outcome, results, settled>>
    /\ UNCHANGED cacheVars
    /\ UNCHANGED botVars

SearchNext == ItunesSettles \/ DeezerSettles \/ SearchFinishes

(***************************************************************************)
(* db/search_cache.py: the JSON text of a track list.  json.dumps writes    *)
(* each track as an object of nine key/value pairs; json.loads and the     *)
(* Track constructor called with keyword arguments read them back by key.  *)
(***************************************************************************)
JsonNull == [tag |-> "null", val |-> <<>>]

JsonString(s) == [tag |-> "string", val |-> s]

JsonNumber(n) == [tag |-> "number", val |-> <<n>>]

\* json.dumps of an Optional[str]
ToJson(v) == IF v.tag = "none" THEN JsonNull ELSE JsonString(v.val)

\* mutant of FromJson: a null is read back as the empty string
FromJsonNullAsEmpty(j) == Str(j.val)

\* json.loads of a string or null
FromJson(j) == IF j.tag = "null" THEN None ELSE Str(j.val)

TrackToJson(t) ==
    << <<"title", ToJson(t.title)>>,
       <<"artist", ToJson(t.artist)>>,
       <<"duration", JsonNumber(t.duration)>>,
       <<"preview_url", ToJson(t.preview_url)>>,
       <<"audio_url", ToJson(t.audio_url)>>,
       <<"album", ToJson(t.album)>>,
       <<"artwork_url", ToJson(t.artwork_url)>>,
       <<"track_id", ToJson(t.track_id)>>,
       <<"source", ToJson(t.source)>> >>

DumpTracks(tracks) == [i \in 1..Len(tracks) |-> TrackToJson(tracks[i])]

\* the value of a key of a parsed object
JsonField(obj, key) == obj[CHOOSE i \in 1..Len(obj) : obj[i][1] = key][2]

TrackFromJson(obj) ==
    Track(FromJson(JsonField(obj, "title")),
          FromJson(JsonField(obj, "artist")),
          JsonField(obj, "duration").val[1],
          FromJson(JsonField(obj, "preview_url")),
          FromJson(JsonField(obj, "audio_url")),
          FromJson(JsonField(obj, "album")),
          FromJson(JsonField(obj, "artwork_url")),
          FromJson(JsonField(obj, "track_id")),
          FromJson(JsonField(obj, "source")))

LoadTracks(json) == [i \in 1..Len(json) |-> TrackFromJson(json[i])]

(***************************************************************************)
(* db/search_cache.py: SearchCacheRepository over the search_cache table.  *)
(* A query that can return any of several rows is modelled by the set of   *)
(* rows (or of results) it can return.                                     *)
(***************************************************************************)
CACHE_EXPIRY_HOURS == 1

\* two tracks a search can return, and the lists saved in the model
TrackA == ItunesTrack(CHOOSE i \in ItunesItems : i.trackName = Str(<<"a", "b">>))

TrackB == DeezerTrack(CHOOSE i \in DeezerItems : i.title = Str(<<"a", "b", "b">>))

TrackLists == {<<TrackA, TrackB>>, <<TrackB>>}

\* the query saved with a track list
CacheQueries == {<<"a", "b">>}

Offsets == 0..MaxOffset

\* timedelta(hours=CACHE_EXPIRY_HOURS), in ticks
ExpiryWindow == CACHE_EXPIRY_HOURS * TicksPerHour

\* datetime.utcnow() - timedelta(hours=CACHE_EXPIRY_HOURS)
CutoffTime(t) == t - ExpiryWindow

SearchCache(id, user_id, q, results_json, current_offset, created_at) ==
    [id |-> id, user_id |-> user_id, query |-> q, results |-> results_json,
     current_offset |-> current_offset, created_at |-> created_at]

\* mutant of UserRows: the condition on user_id is missing
UserRowsOfAnyUser(rs, u) == rs

\* select(SearchCache).where(SearchCache.user_id == user_id)
UserRows(rs, u) == {c \in rs : c.user_id = u}

\* mutant of DeleteUserCache: the user's old rows are kept
DeleteUserCacheNothing(rs, u) == rs

DeleteUserCache(rs, u) == rs \ UserRows(rs, u)

\* the row save_search adds; created_at defaults to datetime.utcnow()
NewCache(id, u, q, tracks, t) == SearchCache(id, u, q, DumpTracks(tracks), 0, t)

SaveSearchRows(rs, id, u, q, tracks, t) ==
    DeleteUserCache(rs, u) \cup {NewCache(id, u, q, tracks, t)}

\* mutant of GetUserCache: the created_at > cutoff condition is missing
GetUserCacheAnyAge(rs, u, t) ==
    {c \in UserRows(rs, u) : \A d \in UserRows(rs, u) : d.created_at <= c.created_at}

\* mutant of GetUserCache: the comparison with the cutoff is reversed
GetUserCacheExpiredOnly(rs, u, t) ==
    LET stale == {c \in UserRows(rs, u) : c.created_at < CutoffTime(t)}
    IN {c \in stale : \A d \in stale : d.created_at <= c.created_at}

\* the rows get_user_cache can return: the latest of the user's rows created
\* after the cutoff; the empty set when it returns None
GetUserCache(rs, u, t) ==
    LET fresh == {c \in UserRows(rs, u) : c.created_at > CutoffTime(t)}
    IN {c \in fresh : \A d \in fresh : d.created_at <= c.created_at}

SomeList(tracks) == [tag |-> "list", val |-> tracks]

IntResult(n) == [tag |-> "int", val |-> <<n>>]

NoResult == [tag |-> "void", val |-> <<>>]

\* the values get_cached_tracks can return
GetCachedTracks(rs, u, t) ==
    IF GetUserCache(rs, u, t) = {} THEN {None}
    ELSE {SomeList(LoadTracks(c.results)) : c \in GetUserCache(rs, u, t)}

\* the values get_offset can return
GetOffset(rs, u, t) ==
    IF GetUserCache(rs, u, t) = {} THEN {IntResult(0)}
    ELSE {IntResult(c.current_offset) : c \in GetUserCache(rs, u, t)}

\* mutant of UpdateOffsetRows: the user's rows are updated whatever their age
UpdateOffsetRowsAnyAge(rs, u, offset, t) ==
    {(rs \ UserRows(rs, u)) \cup {[c EXCEPT !.current_offset = offset] : c \in UserRows(rs, u)}}

\* the tables update_offset can leave
UpdateOffsetRows(rs, u, offset, t) ==
    IF GetUserCache(rs, u, t) = {} THEN {rs}
    ELSE {(rs \ {c}) \cup {[c EXCEPT !.current_offset = offset]} : c \in GetUserCache(rs, u, t)}

\* mutant of CleanupOldCache: no row is deleted
CleanupOldCacheNothing(rs, t) == rs

CleanupOldCache(rs, t) == rs \ {c \in rs : c.created_at < CutoffTime(t)}

(***************************************************************************)
(* The repository calls as actions.  `last` records the call that just     *)
(* returned: its arguments, the rows its SELECT found and its result.      *)
(***************************************************************************)
Call(op, u, tracks, offset, result, caches) ==
    [op |-> op, user |-> u, tracks |-> tracks, offset |-> offset,
     result |-> result, caches |-> caches]

\* the table is empty, no search and no repository call runs
CacheInit ==
    /\ query = <<>>
    /\ limit = 0
    /\ outcome = [p \in Providers |-> "pending"]
    /\ results = [p \in Providers |-> <<>>]
    /\ settled = <<>>
    /\ pc = "idle"
    /\ ret = <<>>
    /\ rows = {}
    /\ now = 0
    /\ nextId = 1
    /\ last = NoCall
    /\ tasks = [t \in TaskIds |-> IdleTask]
    /\ chat = [u \in Users |-> <<>>]
    /\ user_track_counter = NoCounters
    /\ adCalls = [u \in Users |-> 0]
    /\ ads = {}
    /\ admins = {}
    /\ fsm = [u \in Users |-> NoDialog]
    /\ users = {}
    /\ broadcast = NoBroadcast

SaveSearch(u, q, tracks) ==
    /\ nextId <= MaxSaves
    /\ rows' = SaveSearchRows(rows, nextId, u, q, tracks, now)
    /\ nextId' = nextId + 1
    /\ last' = Call("save_search", u, tracks, 0, NoResult, UserRows(rows, u))
    /\ UNCHANGED <<now, tasks>>
    /\ UNCHANGED searchVars
    /\ UNCHANGED botVars

CallGetCachedTracks(u) ==
    /\ \E r \in GetCachedTracks(rows, u, now) :
          last' = Call("get_cached_tracks", u, <<>>, 0, r, GetUserCache(rows, u, now))
    /\ UNCHANGED <<rows, now, nextId, tasks>>
    /\ UNCHANGED searchVars
    /\ UNCHANGED botVars

CallGetOffset(u) ==
    /\ \E r \in GetOffset(rows, u, now) :
          last' = Call("get_offset", u, <<>>, 0, r, GetUserCache(rows, u, now))
    /\ UNCHANGED <<rows, now, nextId, tasks>>
    /\ UNCHANGED searchVars
    /\ UNCHANGED botVars

UpdateOffset(u, offset) ==
    /\ \E next \in UpdateOffsetRows(rows, u, offset, now) : rows' = next
    /\ last' = Call("update_offset", u, <<>>, offset, NoResult, GetUserCache(rows, u, now))
    /\ UNCHANGED <<now, nextId, tasks>>
    /\ UNCHANGED searchVars
    /\ UNCHANGED botVars

CallDeleteUserCache(u) ==
    /\ rows' = DeleteUserCache(rows, u)
    /\ last' = Call("delete_user_cache", u, <<>>, 0, NoResult, UserRows(rows, u))
    /\ UNCHANGED <<now, nextId, tasks>>
    /\ UNCHANGED searchVars
    /\ UNCHANGED botVars

CallCleanupOldCache ==
    /\ rows' = CleanupOldCache(rows, now)
    /\ last' = Call("cleanup_old_cache", 0, <<>>, 0, NoResult, rows \ CleanupOldCache(rows, now))
    /\ UNCHANGED <<now, nextId, tasks>>
    /\ UNCHANGED searchVars
    /\ UNCHANGED botVars

\* time passes between two calls
Tick ==
    /\ now < MaxTime
    /\ now' = now + 1
    /\ last' = NoCall
    /\ UNCHANGED <<rows, nextId, tasks>>
    /\ UNCHANGED searchVars
    /\ UNCHANGED botVars

CacheNext ==
    \/ \E u \in Users, q \in CacheQueries, tracks \in TrackLists : SaveSearch(u, q, tracks)
    \/ \E u \in Users : CallGetCachedTracks(u)
    \/ \E u \in Users : CallGetOffset(u)
    \/ \E u \in Users, offset \in Offsets : UpdateOffset(u, offset)
    \/ \E u \in Users : CallDeleteUserCache(u)
    \/ CallCleanupOldCache
    \/ Tick

(***************************************************************************)
(* Repository calls run by concurrent request tasks, each with its own     *)
(* database session.  A task can be suspended at every await: after the    *)
(* SELECT of delete_user_cache or of get_user_cache, and after the commit  *)
(* that deletes the selected rows.  get_cached_tracks and get_offset are   *)
(* one SELECT each and run between the steps of the other tasks.           *)
(***************************************************************************)
Raised == [tag |-> "raised", val |-> <<>>]

Task(pc_, op, u, q, tracks, offset, caches) ==
    [pc |-> pc_, op |-> op, user |-> u, query |-> q, tracks |-> tracks,
     offset |-> offset, caches |-> caches, msg |-> 0]

\* the primary keys of the rows a SELECT loaded; the statements a commit
\* sends name a loaded row by its primary key
Ids(caches) == {c.id : c \in caches}

\* the rows left when the DELETE statements of the loaded rows commit
DeleteSelected(rs, ids) == rs \ {c \in rs : c.id \in ids}

\* the rows left when UPDATE ... SET current_offset WHERE id = :id commits
WriteOffset(rs, ids, offset) ==
    {IF c.id \in ids THEN [c EXCEPT !.current_offset = offset] ELSE c :
        c \in rs}

\* the track list a task saves: each task has searched for its own query
TaskTracks(t) == IF t = "t1" THEN <<TrackA, TrackB>> ELSE <<TrackB>>

SaveSelects(t, u, q, tracks) ==
    /\ tasks[t].pc = "idle"
    /\ nextId + Cardinality({x \in TaskIds : tasks[x].op = "save_search"}) <= MaxSaves
    /\ tasks' = [tasks EXCEPT ![t] = Task("delete", "save_search", u, q, tracks, 0,
                                          Ids(UserRows(rows, u)))]
    /\ last' = NoCall
    /\ UNCHANGED <<rows, now, nextId>>
    /\ UNCHANGED searchVars
    /\ UNCHANGED botVars

SaveDeletes(t) ==
    /\ tasks[t].pc = "delete"
    /\ rows' = DeleteSelected(rows, tasks[t].caches)
    /\ tasks' = [tasks EXCEPT ![t].pc = "insert"]
    /\ last' = NoCall
    /\ UNCHANGED <<now, nextId>>
    /\ UNCHANGED searchVars
    /\ UNCHANGED botVars

SaveInserts(t) ==
    /\ tasks[t].pc = "insert"
    /\ rows' = rows \cup {NewCache(nextId, tasks[t].user, tasks[t].query, tasks[t].tracks, now)}
    /\ nextId' = nextId + 1
    /\ tasks' = [tasks EXCEPT ![t] = IdleTask]
    /\ last' = Call("save_search", tasks[t].user, tasks[t].tracks, 0, NoResult, tasks[t].caches)
    /\ UNCHANGED now
    /\ UNCHANGED searchVars
    /\ UNCHANGED botVars

\* update_offset up to its commit; it returns at once when no row is found
UpdateSelects(t, u, offset) ==
    /\ tasks[t].pc = "idle"
    /\ IF GetUserCache(rows, u, now) = {}
       THEN /\ tasks' = tasks
            /\ last' = Call("update_offset", u, <<>>, offset, NoResult, {})
       ELSE /\ \E c \in GetUserCache(rows, u, now) :
                  tasks' = [tasks EXCEPT ![t] = Task("write", "update_offset", u, <<>>, <<>>,
                                                     offset, {c.id})]
            /\ last' = NoCall
    /\ UNCHANGED <<rows, now, nextId>>
    /\ UNCHANGED searchVars
    /\ UNCHANGED botVars

\* the commit of update_offset; the UPDATE matches no row, and the commit
\* raises, when the selected row was deleted in the meantime
UpdateWrites(t) ==
    /\ tasks[t].pc = "write"
    /\ rows' = WriteOffset(rows, tasks[t].caches, tasks[t].offset)
    /\ tasks' = [tasks EXCEPT ![t] = IdleTask]
    /\ last' = Call("update_offset", tasks[t].user, <<>>, tasks[t].offset,
                    IF DeleteSelected(rows, tasks[t].caches) = rows THEN Raised ELSE NoResult,
                    tasks[t].caches)
    /\ UNCHANGED <<now, nextId>>
    /\ UNCHANGED searchVars
    /\ UNCHANGED botVars

\* delete_user_cache up to its commit
DeleteSelects(t, u) ==
    /\ tasks[t].pc = "idle"
    /\ tasks' = [tasks EXCEPT ![t] = Task("remove", "delete_user_cache", u, <<>>, <<>>, 0,
                                          Ids(UserRows(rows, u)))]
    /\ last' = NoCall
    /\ UNCHANGED <<rows, now, nextId>>
    /\ UNCHANGED searchVars
    /\ UNCHANGED botVars

DeleteRemoves(t) ==
    /\ tasks[t].pc = "remove"
    /\ rows' = DeleteSelected(rows, tasks[t].caches)
    /\ tasks' = [tasks EXCEPT ![t] = IdleTask]
    /\ last' = Call("delete_user_cache", tasks[t].user, <<>>, 0, NoResult, tasks[t].caches)
    /\ UNCHANGED <<now, nextId>>
    /\ UNCHANGED searchVars
    /\ UNCHANGED botVars

\* time passes between bursts of requests, not inside a repository call
QuietTick == (\A t \in TaskIds : tasks[t].pc = "idle") /\ Tick

CacheConcNext ==
    \/ \E t \in TaskIds, u \in Users, q \in CacheQueries : SaveSelects(t, u, q, TaskTracks(t))
    \/ \E t \in TaskIds : SaveDeletes(t)
    \/ \E t \in TaskIds : SaveInserts(t)
    \/ \E t \in TaskIds, u \in Users, offset \in Offsets : UpdateSelects(t, u, offset)
    \/ \E t \in TaskIds : UpdateWrites(t)
    \/ \E t \in TaskIds, u \in Users : DeleteSelects(t, u)
    \/ \E t \in TaskIds : DeleteRemoves(t)

\* reads made while save_search calls are in progress
ReadConcNext ==
    \/ \E t \in TaskIds, u \in Users, q \in CacheQueries : SaveSelects(t, u, q, TaskTracks(t))
    \/ \E t \in TaskIds : SaveDeletes(t)
    \/ \E t \in TaskIds : SaveInserts(t)
    \/ \E u \in Users : CallGetCachedTracks(u)
    \/ \E u \in Users : CallGetOffset(u)
    \/ QuietTick

(***************************************************************************)
(* handlers/search.py: the handlers that use the cache.  A handler runs    *)
(* for a user the users table knows (handle_search_query creates the user  *)
(* before it searches), so `not user` is false in next_page and prev_page. *)
(***************************************************************************)
MAX_RESULTS_PER_PAGE == 5

\* a list of n tracks returned by MusicService.search
PageList(n) == [i \in 1..n |-> IF i = 1 \/ (i + n) % 2 = 0 THEN TrackA ELSE TrackB]

PageLists ==
    {PageList(n) : n \in {1, 2 * MAX_RESULTS_PER_PAGE, MaxTracks}}

\* what the search of handle_search_query can do: return tracks, return no
\* track, or raise
SearchOutcomes == {SomeList(l) : l \in PageLists \cup {<<>>}} \cup {Raised}

\* the text a handler answers with; the empty text is the plain answer
Answer(text) == [tag |-> "answer", val |-> text]

\* `not tracks`: None or the empty list
NotTracks(r) == r.tag = "none" \/ r.val = <<>>

(***************************************************************************)
(* handlers/search.py: check_and_show_ad and display_ad.  No await stands  *)
(* between the increment of the counter and its reset.                     *)
(***************************************************************************)
SHOW_AD_AFTER_TRACKS == 5

\* cmd_broadcast: if (i + 1) % 10 == 0
StatusEvery == 10

AdRow(id, is_active, impressions, ad_type, text, file_id, button_text, button_url) ==
    [id |-> id, is_active |-> is_active, impressions |-> impressions, ad_type |-> ad_type,
     text |-> text, file_id |-> file_id, button_text |-> button_text,
     button_url |-> button_url]

\* a text advertisement without text and button
Advertisement(id, is_active, impressions) ==
    AdRow(id, is_active, impressions, Str(<<"t", "e", "x", "t">>), None, None, None, None)

\* the counter check_and_show_ad finds, 0 for a user the dict does not hold
Counter(counters, u) == IF u \in DOMAIN counters THEN counters[u] ELSE 0

\* the counter has reached the threshold: it is reset and an ad is looked up
AdLookup(counters, u) == Counter(counters, u) + 1 >= SHOW_AD_AFTER_TRACKS

\* mutant of CountersAfter: the counter is reset only when an active ad exists
CountersAfterResetOnAd(counters, u, table) ==
    [v \in DOMAIN counters \cup {u} |->
        IF v # u THEN counters[v]
        ELSE IF AdLookup(counters, u) /\ \E a \in table : a.is_active THEN 0
        ELSE Counter(counters, u) + 1]

\* user_track_counter when check_and_show_ad has run for u
CountersAfter(counters, u, table) ==
    [v \in DOMAIN counters \cup {u} |->
        IF v # u THEN counters[v]
        ELSE IF AdLookup(counters, u) THEN 0
        ELSE Counter(counters, u) + 1]

\* get_active_ads
ActiveAds(table) == {a \in table : a.is_active}

\* increment_impressions within one session, nothing running in between
IncrementImpressions(table, id) ==
    {IF a.id = id THEN [a EXCEPT !.impressions = @ + 1] ELSE a : a \in table}

\* the advertisements tables check_and_show_ad can leave: random.choice
\* picks any active ad
AdsAfterCheck(table, counters, u) ==
    IF AdLookup(counters, u) /\ ActiveAds(table) # {}
    THEN {IncrementImpressions(table, a.id) : a \in ActiveAds(table)}
    ELSE {table}

(***************************************************************************)
(* keyboards/inline.py and the messages that carry a keyboard.  A message  *)
(* keeps its place in chat[u] when a handler deletes it and answers with   *)
(* a new one.  `session` is the id of the search_cache row the keyboard    *)
(* was built from.                                                         *)
(***************************************************************************)
\* get_track_actions_keyboard
ActionsKeyboard(has_more, session) ==
    [kind |-> "actions", has_more |-> has_more, offset |-> 0, shown |-> <<>>,
     next |-> FALSE, session |-> session]

\* end_idx = min(offset + max_results, len(tracks))
EndIdx(tracks, offset) == Min2(offset + MAX_RESULTS_PER_PAGE, Len(tracks))

\* get_track_list_keyboard: the buttons track:offset .. track:end_idx-1 with
\* the tracks they show, and the next_page button
ListKeyboard(tracks, offset, session) ==
    [kind |-> "list", has_more |-> FALSE, offset |-> offset,
     shown |-> SubSeq(tracks, offset + 1, EndIdx(tracks, offset)),
     next |-> EndIdx(tracks, offset) < Len(tracks), session |-> session]

\* the row a paging handler built its keyboard from: the user's observable
\* row, or the one of the keyboard it edits when no row is observable
SessionOf(u, kb) ==
    IF GetUserCache(rows, u, now) = {} THEN kb.session
    ELSE (CHOOSE c \in GetUserCache(rows, u, now) : TRUE).id

\* the message was deleted
Deleted == [kind |-> "deleted", has_more |-> FALSE, offset |-> 0, shown |-> <<>>,
            next |-> FALSE, session |-> 0]

\* the places of the user's messages that have the button
WithMoreResults(u) == {m \in 1..Len(chat[u]) : chat[u][m].kind = "actions" /\ chat[u][m].has_more}

WithNextPage(u) == {m \in 1..Len(chat[u]) : chat[u][m].kind = "list" /\ chat[u][m].next}

WithPrevPage(u) == {m \in 1..Len(chat[u]) : chat[u][m].kind = "list" /\ chat[u][m].offset > 0}

\* the index i of a button track:i of the list keyboard
TrackButtons(kb) == {kb.offset + k - 1 : k \in 1..Len(kb.shown)}

\* Track.download_url: self.audio_url or self.preview_url
DownloadUrl(t) ==
    IF t.audio_url.tag = "str" /\ t.audio_url.val # <<>> THEN t.audio_url ELSE t.preview_url

\* what send_track can return: False for a track without download_url, and
\* False as well when the download or the upload fails
SendTrack(t) ==
    IF DownloadUrl(t).tag = "str" /\ DownloadUrl(t).val # <<>> THEN BOOLEAN ELSE {FALSE}

\* handle_search_query once its search has settled: the tracks are saved
\* only when the search returned at least one track; the best match is sent
\* and, when that succeeded, the actions keyboard is shown and
\* check_and_show_ad is called
HandleSearchQuery(u, q, out) ==
    /\ nextId <= MaxSaves
    /\ users' = users \cup {u}
    /\ IF out.tag = "list" /\ ~NotTracks(out)
       THEN /\ rows' = SaveSearchRows(rows, nextId, u, q, out.val, now)
            /\ nextId' = nextId + 1
            /\ \E success \in SendTrack(out.val[1]) :
                  IF success
                  THEN /\ chat' = [chat EXCEPT ![u] =
                                      Append(@, ActionsKeyboard(Len(out.val) > 1, nextId))]
                       /\ user_track_counter' = CountersAfter(user_track_counter, u, ads)
                       /\ adCalls' = [adCalls EXCEPT ![u] = @ + 1]
                       /\ \E table \in AdsAfterCheck(ads, user_track_counter, u) : ads' = table
                  ELSE UNCHANGED <<chat, user_track_counter, adCalls, ads>>
       ELSE UNCHANGED <<rows, nextId, chat, user_track_counter, adCalls, ads>>
    /\ last' = Call("handle_search_query", u, out.val, 0,
                    IF out.tag = "raised" THEN Answer("network_error")
                    ELSE IF NotTracks(out) THEN Answer("track_not_found")
                    ELSE Answer(""),
                    UserRows(rows, u))
    /\ UNCHANGED <<now, tasks, admins, fsm, broadcast>>
    /\ UNCHANGED searchVars

\* show_more_results pressed on the message at place m: the list from
\* offset 1 replaces the message; the stored offset is not written
ShowMoreResults(u, m) ==
    /\ m \in WithMoreResults(u)
    /\ IF \A c \in GetUserCache(rows, u, now) : Len(LoadTracks(c.results)) <= 1
       THEN /\ chat' = chat
            /\ last' = Call("show_more_results", u, <<>>, 0, Answer("no_more_results"),
                            GetUserCache(rows, u, now))
       ELSE \E c \in GetUserCache(rows, u, now) :
               /\ chat' = [chat EXCEPT ![u][m] = ListKeyboard(LoadTracks(c.results), 1, c.id)]
               /\ last' = Call("show_more_results", u, <<>>, 1, Answer(""), {c})
    /\ UNCHANGED <<rows, now, nextId, tasks>>
    /\ UNCHANGED <<user_track_counter, adCalls, ads, admins, fsm, users, broadcast>>
    /\ UNCHANGED searchVars

\* send_selected_track for the button track:i of the list at place m:
\* last.tracks holds the track handed to send_track
SendSelectedTrack(u, m, i) ==
    /\ m \in 1..Len(chat[u])
    /\ chat[u][m].kind = "list"
    /\ i \in TrackButtons(chat[u][m])
    /\ \E r \in GetCachedTracks(rows, u, now) :
          IF NotTracks(r) \/ i >= Len(r.val)
          THEN /\ chat' = chat
               /\ last' = Call("send_selected_track", u, <<>>, i, Answer("track_not_found"),
                               GetUserCache(rows, u, now))
          ELSE \E success \in SendTrack(r.val[i + 1]) :
                  /\ chat' = [chat EXCEPT ![u][m] =
                                 IF success
                                 THEN ActionsKeyboard(TRUE, chat[u][m].session)
                                 ELSE Deleted]
                  /\ last' = Call("send_selected_track", u, <<r.val[i + 1]>>, i,
                                  IF success THEN Answer("") ELSE Answer("download_error"),
                                  GetUserCache(rows, u, now))
    /\ UNCHANGED <<rows, now, nextId, tasks>>
    /\ UNCHANGED <<user_track_counter, adCalls, ads, admins, fsm, users, broadcast>>
    /\ UNCHANGED searchVars

NextOffset(current_offset) == current_offset + MAX_RESULTS_PER_PAGE

PrevOffset(current_offset) == Max2(0, current_offset - MAX_RESULTS_PER_PAGE)

\* next_page pressed on the list at place m
NextPageOn(u, m) ==
    /\ m \in WithNextPage(u)
    /\ \E r \in GetCachedTracks(rows, u, now), cur \in GetOffset(rows, u, now) :
          IF NotTracks(r)
          THEN /\ rows' = rows
               /\ chat' = chat
               /\ last' = Call("next_page", u, <<>>, 0, Answer("Error"),
                               GetUserCache(rows, u, now))
          ELSE IF NextOffset(cur.val[1]) >= Len(r.val)
          THEN /\ rows' = rows
               /\ chat' = chat
               /\ last' = Call("next_page", u, <<>>, NextOffset(cur.val[1]),
                               Answer("no_more_results"), GetUserCache(rows, u, now))
          ELSE /\ \E next \in UpdateOffsetRows(rows, u, NextOffset(cur.val[1]), now) :
                     rows' = next
               /\ chat' = [chat EXCEPT ![u][m] =
                              ListKeyboard(r.val, NextOffset(cur.val[1]), SessionOf(u, @))]
               /\ last' = Call("next_page", u, <<>>, NextOffset(cur.val[1]), Answer(""),
                               GetUserCache(rows, u, now))
    /\ UNCHANGED <<now, nextId, tasks>>
    /\ UNCHANGED <<user_track_counter, adCalls, ads, admins, fsm, users, broadcast>>
    /\ UNCHANGED searchVars

NextPage(u) == \E m \in WithNextPage(u) : NextPageOn(u, m)

\* prev_page pressed on the list at place m
PrevPageOn(u, m) ==
    /\ m \in WithPrevPage(u)
    /\ \E r \in GetCachedTracks(rows, u, now), cur \in GetOffset(rows, u, now) :
          IF NotTracks(r)
          THEN /\ rows' = rows
               /\ chat' = chat
               /\ last' = Call("prev_page", u, <<>>, 0, Answer("Error"),
                               GetUserCache(rows, u, now))
          ELSE /\ \E next \in UpdateOffsetRows(rows, u, PrevOffset(cur.val[1]), now) :
                     rows' = next
               /\ chat' = [chat EXCEPT ![u][m] =
                              ListKeyboard(r.val, PrevOffset(cur.val[1]), SessionOf(u, @))]
               /\ last' = Call("prev_page", u, <<>>, PrevOffset(cur.val[1]), Answer(""),
                               GetUserCache(rows, u, now))
    /\ UNCHANGED <<now, nextId, tasks>>
    /\ UNCHANGED <<user_track_counter, adCalls, ads, admins, fsm, users, broadcast>>
    /\ UNCHANGED searchVars

PrevPage(u) == \E m \in WithPrevPage(u) : PrevPageOn(u, m)

\* the handlers of one user after the other, the periodic cleanup and the
\* clock
PageNext ==
    \/ \E u \in Users, q \in CacheQueries, out \in SearchOutcomes : HandleSearchQuery(u, q, out)
    \/ \E u \in Users, m \in 1..MaxSaves : ShowMoreResults(u, m)
    \/ \E u \in Users : NextPage(u)
    \/ \E u \in Users : PrevPage(u)
    \/ \E u \in Users : CallGetCachedTracks(u)
    \/ CallCleanupOldCache
    \/ Tick

\* the user whose chat is followed button by button
ListUsers == {1}

\* searches and button presses of one user, within one reading of the clock
ListNext ==
    \/ \E u \in ListUsers, q \in CacheQueries, out \in SearchOutcomes :
          HandleSearchQuery(u, q, out)
    \/ \E u \in ListUsers, m \in 1..MaxSaves : ShowMoreResults(u, m)
    \/ \E u \in ListUsers, m \in 1..MaxSaves, i \in 0..(MaxTracks - 1) :
          SendSelectedTrack(u, m, i)
    \/ \E u \in ListUsers : NextPage(u)
    \/ \E u \in ListUsers : PrevPage(u)

(***************************************************************************)
(* next_page run by concurrent request tasks of one or two users.  The     *)
(* handler is suspended at each await: after get_cached_tracks, after      *)
(* get_offset, and inside update_offset between its SELECT and its commit. *)
(***************************************************************************)
\* callback.message.edit_reply_markup of the task: the list keyboard at the
\* new offset replaces the one of the pressed message
EditedList(task) ==
    [chat EXCEPT ![task.user][task.msg] =
        ListKeyboard(task.tracks, task.offset, SessionOf(task.user, @))]

\* next_page up to the return of get_cached_tracks
NextReads(t, u) ==
    /\ tasks[t].pc = "idle"
    /\ \E m \in WithNextPage(u), r \in GetCachedTracks(rows, u, now) :
          IF NotTracks(r)
          THEN /\ tasks' = tasks
               /\ last' = Call("next_page", u, <<>>, 0, Answer("Error"), {})
          ELSE /\ tasks' = [tasks EXCEPT ![t] =
                                [Task("offset", "next_page", u, <<>>, r.val, 0, {})
                                    EXCEPT !.msg = m]]
               /\ last' = NoCall
    /\ UNCHANGED <<rows, now, nextId>>
    /\ UNCHANGED searchVars
    /\ UNCHANGED botVars

\* get_offset and the test of the new offset against the list
NextGetsOffset(t) ==
    /\ tasks[t].pc = "offset"
    /\ \E cur \in GetOffset(rows, tasks[t].user, now) :
          IF NextOffset(cur.val[1]) >= Len(tasks[t].tracks)
          THEN /\ tasks' = [tasks EXCEPT ![t] = IdleTask]
               /\ last' = Call("next_page", tasks[t].user, <<>>, NextOffset(cur.val[1]),
                               Answer("no_more_results"), {})
          ELSE /\ tasks' = [tasks EXCEPT ![t].pc = "select",
                                         ![t].offset = NextOffset(cur.val[1])]
               /\ last' = NoCall
    /\ UNCHANGED <<rows, now, nextId>>
    /\ UNCHANGED searchVars
    /\ UNCHANGED botVars

\* the get_user_cache of update_offset; with no row the handler goes on to
\* its plain answer
NextSelects(t) ==
    /\ tasks[t].pc = "select"
    /\ IF GetUserCache(rows, tasks[t].user, now) = {}
       THEN /\ tasks' = [tasks EXCEPT ![t] = IdleTask]
            /\ chat' = EditedList(tasks[t])
            /\ last' = Call("next_page", tasks[t].user, <<>>, tasks[t].offset, Answer(""), {})
       ELSE /\ \E c \in GetUserCache(rows, tasks[t].user, now) :
                  tasks' = [tasks EXCEPT ![t].pc = "write", ![t].caches = {c.id}]
            /\ chat' = chat
            /\ last' = NoCall
    /\ UNCHANGED <<rows, now, nextId>>
    /\ UNCHANGED <<user_track_counter, adCalls, ads, admins, fsm, users, broadcast>>
    /\ UNCHANGED searchVars

\* the commit of update_offset and the plain answer of the handler
NextWrites(t) ==
    /\ tasks[t].pc = "write"
    /\ rows' = WriteOffset(rows, tasks[t].caches, tasks[t].offset)
    /\ tasks' = [tasks EXCEPT ![t] = IdleTask]
    /\ chat' = IF DeleteSelected(rows, tasks[t].caches) = rows THEN chat
               ELSE EditedList(tasks[t])
    /\ last' = Call("next_page", tasks[t].user, <<>>, tasks[t].offset,
                    IF DeleteSelected(rows, tasks[t].caches) = rows THEN Raised ELSE Answer(""),
                    tasks[t].caches)
    /\ UNCHANGED <<now, nextId>>
    /\ UNCHANGED <<user_track_counter, adCalls, ads, admins, fsm, users, broadcast>>
    /\ UNCHANGED searchVars

\* a search handled while no next_page is in progress
QuietSearch(u, q, out) ==
    (\A t \in TaskIds : tasks[t].pc = "idle") /\ HandleSearchQuery(u, q, out)

\* show_more_results handled while no next_page is in progress
QuietMoreResults(u, m) ==
    (\A t \in TaskIds : tasks[t].pc = "idle") /\ ShowMoreResults(u, m)

PageConcNext ==
    \/ \E u \in Users, q \in CacheQueries, out \in SearchOutcomes : QuietSearch(u, q, out)
    \/ \E u \in Users, m \in 1..MaxSaves : QuietMoreResults(u, m)
    \/ \E t \in TaskIds, u \in Users : NextReads(t, u)
    \/ \E t \in TaskIds : NextGetsOffset(t)
    \/ \E t \in TaskIds : NextSelects(t)
    \/ \E t \in TaskIds : NextWrites(t)

(***************************************************************************)
(* MusicService.search, lines 60-61: _deduplicate_tracks and               *)
(* _sort_by_relevance applied to merged provider lists.  Both are          *)
(* synchronous functions of their arguments; here each is applied once     *)
(* and then once more, `last` keeping the argument of the latest           *)
(* application and `ret` its value.                                        *)
(***************************************************************************)
LongTitle == Str(<<"a", "a", "a", "a", "a", "a", "a", "a", "a">>)

\* items iTunes can answer with
PipelineItunesItems ==
    { ItunesItem(Str(<<"a", "b">>), Str(<<"c">>), Num(2500), Str(UrlP), Num(7)),
      ItunesItem(Str(<<"b">>), Str(<<"a">>), Absent, Absent, Absent),
      ItunesItem(LongTitle, Str(<<"a", "b", "b">>), Num(1000), Absent, Num(1)),
      ItunesItem(None, Str(<<"c">>), Num(0), Str(UrlP), Num(8)) }

\* items Deezer can answer with
PipelineDeezerItems ==
    { DeezerItem(Str(<<"A", "B", " ">>), Obj(Str(<<"C">>)), Num(2), Str(UrlP), Num(3)),
      DeezerItem(Str(<<"a", "b", "b">>), Obj(Str(<<"c">>)), Num(2), Absent, Num(4)),
      DeezerItem(LongTitle, Obj(Str(<<"a", "c", "c">>)), Num(1), Absent, Num(2)) }

\* both provider coroutines have returned their lists
PipelineInit ==
    /\ query \in Queries
    /\ limit = MaxLimit
    /\ outcome = [p \in Providers |-> "ok"]
    /\ settled = <<"itunes", "deezer">>
    /\ results \in
          { [p \in Providers |-> IF p = "itunes" THEN xs ELSE ys] :
                xs \in SeqsUpTo({ItunesTrack(i) : i \in PipelineItunesItems}, MaxItems),
                ys \in SeqsUpTo({DeezerTrack(i) : i \in PipelineDeezerItems}, MaxItems) }
    /\ pc = "merged"
    /\ ret = <<>>
    /\ rows = {}
    /\ now = 0
    /\ nextId = 1
    /\ last = NoCall
    /\ tasks = [t \in TaskIds |-> IdleTask]
    /\ chat = [u \in Users |-> <<>>]
    /\ user_track_counter = NoCounters
    /\ adCalls = [u \in Users |-> 0]
    /\ ads = {}
    /\ admins = {}
    /\ fsm = [u \in Users |-> NoDialog]
    /\ users = {}
    /\ broadcast = NoBroadcast

\* unique_tracks = self._deduplicate_tracks(all_tracks)
Deduplicates ==
    /\ pc = "merged"
    /\ IF DeduplicateRaises(AllTracks(results))
       THEN pc' = "raised" /\ ret' = ret
       ELSE pc' = "unique" /\ ret' = DeduplicateTracks(AllTracks(results))
    /\ last' = Call("_deduplicate_tracks", 0, AllTracks(results), 0, NoResult, {})
    /\ UNCHANGED <<query, limit, outcome, results, settled, rows, now, nextId, tasks>>
    /\ UNCHANGED botVars

\* _deduplicate_tracks applied to its own result
DeduplicatesAgain ==
    /\ pc = "unique"
    /\ ret' = DeduplicateTracks(ret)
    /\ last' = Call("_deduplicate_tracks", 0, ret, 0, NoResult, {})
    /\ pc' = "unique again"
    /\ UNCHANGED <<query, limit, outcome, results, settled, rows, now, nextId, tasks>>
    /\ UNCHANGED botVars

\* sorted_tracks = self._sort_by_relevance(unique_tracks, query)
Sorts ==
    /\ pc = "unique"
    /\ IF SortByRelevanceRaises(ret)
       THEN pc' = "raised" /\ ret' = ret
       ELSE /\ pc' = "sorted"
            /\ \E sorted_tracks \in SortOutcomes(ret, query) : ret' = sorted_tracks
    /\ last' = Call("_sort_by_relevance", 0, ret, 0, NoResult, {})
    /\ UNCHANGED <<query, limit, outcome, results, settled, rows, now, nextId, tasks>>
    /\ UNCHANGED botVars

\* _sort_by_relevance applied a second time to the same list and query; the
\* second value goes to last.result
SortsAgain ==
    /\ pc = "sorted"
    /\ \E sorted_tracks \in SortOutcomes(last.tracks, query) :
          last' = [last EXCEPT !.result = SomeList(sorted_tracks)]
    /\ pc' = "sorted again"
    /\ UNCHANGED <<query, limit, outcome, results, settled, ret, rows, now, nextId, tasks>>
    /\ UNCHANGED botVars

PipelineNext == Deduplicates \/ DeduplicatesAgain \/ Sorts \/ SortsAgain

(***************************************************************************)
(* check_and_show_ad called by concurrent request tasks.  The counter is   *)
(* updated before the first await; display_ad then increments the          *)
(* impressions of the ad object its session loaded in get_active_ads and   *)
(* commits the new value.                                                  *)
(***************************************************************************)
\* AdRepository.create_ad: a new active advertisement without impressions
CreateAd ==
    /\ Cardinality(ads) < MaxAds
    /\ ads' = ads \cup {Advertisement(Cardinality(ads) + 1, TRUE, 0)}
    /\ last' = Call("create_ad", 0, <<>>, 0, NoResult, {Cardinality(ads) + 1})
    /\ UNCHANGED <<rows, now, nextId, tasks>>
    /\ UNCHANGED <<chat, user_track_counter, adCalls, admins, fsm, users, broadcast>>
    /\ UNCHANGED searchVars

\* AdRepository.update_ad(ad_id, is_active=...)
SetAdActive(id, active) ==
    /\ \E a \in ads : a.id = id /\ a.is_active # active
    /\ ads' = {IF a.id = id THEN [a EXCEPT !.is_active = active] ELSE a : a \in ads}
    /\ last' = Call("update_ad", 0, <<>>, 0, NoResult, {id})
    /\ UNCHANGED <<rows, now, nextId, tasks>>
    /\ UNCHANGED <<chat, user_track_counter, adCalls, admins, fsm, users, broadcast>>
    /\ UNCHANGED searchVars

\* check_and_show_ad up to the return of get_random_active_ad: last.result
\* tells whether an ad was looked up and whether one was found; the task
\* keeps the id of the chosen ad and the impressions it loaded
CheckAndShowAd(t, u) ==
    /\ tasks[t].pc = "idle"
    /\ adCalls[u] < MaxAdCalls
    /\ user_track_counter' = CountersAfter(user_track_counter, u, ads)
    /\ adCalls' = [adCalls EXCEPT ![u] = @ + 1]
    /\ IF AdLookup(user_track_counter, u) /\ ActiveAds(ads) # {}
       THEN \E a \in ActiveAds(ads) :
               /\ tasks' = [tasks EXCEPT ![t] = Task("commit", "display_ad", u, <<>>, <<>>,
                                                     a.impressions, {a.id})]
               /\ last' = Call("check_and_show_ad", u, <<>>, 0, Answer("ad"), {a.id})
       ELSE /\ tasks' = tasks
            /\ last' = Call("check_and_show_ad", u, <<>>, 0,
                            IF AdLookup(user_track_counter, u) THEN Answer("no ad")
                            ELSE NoResult, {})
    /\ UNCHANGED <<rows, now, nextId>>
    /\ UNCHANGED <<chat, ads, admins, fsm, users, broadcast>>
    /\ UNCHANGED searchVars

\* display_ad: ad.impressions += 1 on the loaded object and the commit,
\* UPDATE advertisements SET impressions = <loaded value + 1>
DisplayAdCommits(t) ==
    /\ tasks[t].pc = "commit"
    /\ tasks[t].op = "display_ad"
    /\ ads' = {IF a.id \in tasks[t].caches
               THEN [a EXCEPT !.impressions = tasks[t].offset + 1] ELSE a : a \in ads}
    /\ tasks' = [tasks EXCEPT ![t] = IdleTask]
    /\ last' = Call("display_ad", tasks[t].user, <<>>, tasks[t].offset + 1, Answer(""),
                    tasks[t].caches)
    /\ UNCHANGED <<rows, now, nextId>>
    /\ UNCHANGED <<chat, user_track_counter, adCalls, admins, fsm, users, broadcast>>
    /\ UNCHANGED searchVars

AdNext ==
    \/ CreateAd
    \/ \E id \in 1..MaxAds, active \in BOOLEAN : SetAdActive(id, active)
    \/ \E t \in TaskIds, u \in Users : CheckAndShowAd(t, u)
    \/ \E t \in TaskIds : DisplayAdCommits(t)

(***************************************************************************)
(* handlers/admin.py: /addadmin and /deladmin.  The admins table holds     *)
(* rows [id, is_super_admin]; Config.SUPER_ADMIN_IDS comes from the        *)
(* environment and never changes while the bot runs.                       *)
(***************************************************************************)
\* the Telegram ids that issue commands and are named in them
AdminIds == 1..MaxAdminId

\* Config.SUPER_ADMIN_IDS
SUPER_ADMIN_IDS == {1}

Admin(id, is_super) == [id |-> id, is_super_admin |-> is_super]

\* the words after the command in message.text
CommandArgs == {<<>>, <<"x">>} \cup {<<d>> : d \in {"1", "2", "3", "4"}}

\* int(args[1]): a ValueError for a word that is no number
ParseInt(word) ==
    CASE word = "1" -> [tag |-> "int", val |-> 1]
      [] word = "2" -> [tag |-> "int", val |-> 2]
      [] word = "3" -> [tag |-> "int", val |-> 3]
      [] word = "4" -> [tag |-> "int", val |-> 4]
      [] OTHER -> [tag |-> "ValueError", val |-> 0]

\* AdminRepository.is_admin
RepoIsAdmin(table, id) == \E a \in table : a.id = id

\* mutant of IsSuperAdmin: every stored admin counts as a super admin
IsSuperAdminAnyAdmin(table, id) == id \in SUPER_ADMIN_IDS \/ RepoIsAdmin(table, id)

\* is_super_admin of handlers/admin.py: the config list first, then the
\* row's is_super_admin
IsSuperAdmin(table, id) ==
    id \in SUPER_ADMIN_IDS \/ \E a \in table : a.id = id /\ a.is_super_admin

\* is_admin of handlers/admin.py
IsAdmin(table, id) == id \in SUPER_ADMIN_IDS \/ RepoIsAdmin(table, id)

\* AdminRepository.add_admin(new_admin_id, username=...): is_super_admin
\* keeps its default False
AddAdmin(table, id) == table \cup {Admin(id, FALSE)}

\* AdminRepository.remove_admin
RemoveAdmin(table, id) == {a \in table : a.id # id}

\* cmd_add_admin: last.offset is the id named in the command
CmdAddAdmin(u, args) ==
    /\ IF ~IsSuperAdmin(admins, u)
       THEN /\ admins' = admins
            /\ last' = Call("cmd_add_admin", u, <<>>, 0, Answer("super admins only"), {})
       ELSE IF Len(args) < 1
       THEN /\ admins' = admins
            /\ last' = Call("cmd_add_admin", u, <<>>, 0, Answer("no id"), {})
       ELSE IF ParseInt(args[1]).tag = "ValueError"
       THEN /\ admins' = admins
            /\ last' = Call("cmd_add_admin", u, <<>>, 0, Answer("id must be a number"), {})
       ELSE IF RepoIsAdmin(admins, ParseInt(args[1]).val)
       THEN /\ admins' = admins
            /\ last' = Call("cmd_add_admin", u, <<>>, ParseInt(args[1]).val,
                            Answer("already admin"), {})
       ELSE /\ admins' = AddAdmin(admins, ParseInt(args[1]).val)
            /\ last' = Call("cmd_add_admin", u, <<>>, ParseInt(args[1]).val,
                            Answer("added"), {})
    /\ UNCHANGED <<rows, now, nextId, tasks>>
    /\ UNCHANGED <<chat, user_track_counter, adCalls, ads, fsm, users, broadcast>>
    /\ UNCHANGED searchVars

\* cmd_del_admin
CmdDelAdmin(u, args) ==
    /\ IF ~IsSuperAdmin(admins, u)
       THEN /\ admins' = admins
            /\ last' = Call("cmd_del_admin", u, <<>>, 0, Answer("super admins only"), {})
       ELSE IF Len(args) < 1
       THEN /\ admins' = admins
            /\ last' = Call("cmd_del_admin", u, <<>>, 0, Answer("no id"), {})
       ELSE IF ParseInt(args[1]).tag = "ValueError"
       THEN /\ admins' = admins
            /\ last' = Call("cmd_del_admin", u, <<>>, 0, Answer("id must be a number"), {})
       ELSE IF ParseInt(args[1]).val = u \/ ParseInt(args[1]).val \in SUPER_ADMIN_IDS
       THEN /\ admins' = admins
            /\ last' = Call("cmd_del_admin", u, <<>>, ParseInt(args[1]).val,
                            Answer("cannot remove a super admin"), {})
       ELSE /\ admins' = RemoveAdmin(admins, ParseInt(args[1]).val)
            /\ last' = Call("cmd_del_admin", u, <<>>, ParseInt(args[1]).val,
                            IF RepoIsAdmin(admins, ParseInt(args[1]).val)
                            THEN Answer("removed") ELSE Answer("no such admin"), {})
    /\ UNCHANGED <<rows, now, nextId, tasks>>
    /\ UNCHANGED <<chat, user_track_counter, adCalls, ads, fsm, users, broadcast>>
    /\ UNCHANGED searchVars

\* the bot starts with an admins table that holds no row or the row of a
\* stored super admin
AdminInit ==
    /\ query = <<>>
    /\ limit = 0
    /\ outcome = [p \in Providers |-> "pending"]
    /\ results = [p \in Providers |-> <<>>]
    /\ settled = <<>>
    /\ pc = "idle"
    /\ ret = <<>>
    /\ rows = {}
    /\ now = 0
    /\ nextId = 1
    /\ last = NoCall
    /\ tasks = [t \in TaskIds |-> IdleTask]
    /\ chat = [u \in Users |-> <<>>]
    /\ user_track_counter = NoCounters
    /\ adCalls = [u \in Users |-> 0]
    /\ ads = {}
    /\ admins \in {{}, {Admin(2, TRUE)}}
    /\ fsm = [u \in Users |-> NoDialog]
    /\ users = {}
    /\ broadcast = NoBroadcast

AdminNext ==
    \/ \E u \in AdminIds, args \in CommandArgs : CmdAddAdmin(u, args)
    \/ \E u \in AdminIds, args \in CommandArgs : CmdDelAdmin(u, args)

(***************************************************************************)
(* handlers/__init__.py and handlers/ad_management.py: a message is handed *)
(* to the first handler, in the order of the routers and of the handlers   *)
(* within a router, whose filters accept it; a handler that returns has    *)
(* consumed the message.  Dispatcher() keeps the FSM state per user.       *)
(***************************************************************************)
TextMessage(text) == [content_type |-> "text", text |-> Str(text), caption |-> None]

PhotoMessage == [content_type |-> "photo", text |-> None, caption |-> None]

VideoMessage == [content_type |-> "video", text |-> None, caption |-> None]

CancelText == <<"/", "c", "a", "n", "c", "e", "l">>

SkipText == <<"/", "s", "k", "i", "p">>

AdTextText == <<"/", "a", "d", "_", "t", "e", "x", "t">>

AdPhotoText == <<"/", "a", "d", "_", "p", "h", "o", "t", "o">>

AdVideoText == <<"/", "a", "d", "_", "v", "i", "d", "e", "o">>

\* a text that is no command
PlainText == <<"a", "b">>

\* 'label | url'
ButtonText == <<"b", " ", "|", " ", "h", "t", "t", "p", ":", "/", "/", "x">>

\* 'label | url' with a url without scheme
ButtonNoSchemeText == <<"b", "|", "t", ".", "m", "e">>

\* a text that starts with the command prefix and is no known command
SlashButtonText == <<"/", "b", "|", "t", ".", "m", "e">>

\* a link
UrlText == <<"h", "t", "t", "p", "s", ":", "/", "/", "x">>

\* the messages a user sends
Messages ==
    {TextMessage(t) : t \in {CancelText, SkipText, AdTextText, AdPhotoText, AdVideoText,
                              PlainText, ButtonText, ButtonNoSchemeText, SlashButtonText,
                              UrlText}}
        \cup {PhotoMessage, VideoMessage}

\* str.startswith
StartsWith(s, prefix) == Len(s) >= Len(prefix) /\ SubSeq(s, 1, Len(prefix)) = prefix

\* the text up to the first space: the command word of a message
FirstWord(s) ==
    IF \E i \in 1..Len(s) : IsSpace(s[i])
    THEN SubSeq(s, 1, (CHOOSE i \in 1..Len(s) :
                          IsSpace(s[i]) /\ \A j \in 1..(i - 1) : ~IsSpace(s[j])) - 1)
    ELSE s

\* the filter Command(name)
IsCommand(msg, name) == msg.text.tag = "str" /\ FirstWord(msg.text.val) = <<"/">> \o name

\* the regular expression https?:// found at the start of the text
UrlAtStart(s) ==
    StartsWith(s, <<"h", "t", "t", "p", ":", "/", "/">>)
        \/ StartsWith(s, <<"h", "t", "t", "p", "s", ":", "/", "/">>)

\* the regular expression https?:// found anywhere in the text
UrlAnywhere(s) == \E i \in 1..Len(s) : UrlAtStart(SubSeq(s, i, Len(s)))

\* F.text.regexp(r'https?://') accepts the text: the pattern is matched at
\* the start of the text or searched in it, depending on the mode the
\* filter library applies; both are listed
SocialAccepts(msg) ==
    IF msg.text.tag # "str" THEN {FALSE}
    ELSE {UrlAtStart(msg.text.val), UrlAnywhere(msg.text.val)}

\* the filters of the ad_management router, in the order of registration
AdManagementHandler(state, msg) ==
    IF IsCommand(msg, <<"n", "e", "w", "a", "d">>) THEN "cmd_new_ad"
    ELSE IF IsCommand(msg, Tail(AdTextText)) THEN "create_text_ad"
    ELSE IF IsCommand(msg, Tail(AdPhotoText)) THEN "create_photo_ad"
    ELSE IF IsCommand(msg, Tail(AdVideoText)) THEN "create_video_ad"
    ELSE IF state = "waiting_for_text" THEN "process_ad_text"
    ELSE IF state = "waiting_for_photo" /\ msg.content_type = "photo" THEN "process_ad_photo"
    ELSE IF state = "waiting_for_video" /\ msg.content_type = "video" THEN "process_ad_video"
    ELSE IF state = "waiting_for_button" THEN "process_ad_button"
    ELSE IF IsCommand(msg, Tail(CancelText)) THEN "cancel_ad_creation"
    ELSE IF IsCommand(msg, <<"t", "o", "g", "g", "l", "e", "a", "d">>) THEN "toggle_ad"
    ELSE IF IsCommand(msg, <<"d", "e", "l", "e", "t", "e", "a", "d">>) THEN "delete_ad"
    ELSE "unhandled"

\* the filters of the admin router
AdminHandler(msg) ==
    IF IsCommand(msg, <<"a", "d", "d", "a", "d", "m", "i", "n">>) THEN "cmd_add_admin"
    ELSE IF IsCommand(msg, <<"d", "e", "l", "a", "d", "m", "i", "n">>) THEN "cmd_del_admin"
    ELSE IF IsCommand(msg, <<"a", "d", "m", "i", "n">>) THEN "cmd_admin"
    ELSE IF IsCommand(msg, <<"b", "r", "o", "a", "d", "c", "a", "s", "t">>) THEN "cmd_broadcast"
    ELSE "unhandled"

\* get_routers: start, social, shazam, search, admin, ad_management; the
\* handlers that can receive the message
Route(state, msg) ==
    IF IsCommand(msg, <<"s", "t", "a", "r", "t">>) THEN {"cmd_start"}
    ELSE { IF social THEN "social_media_handler"
           ELSE IF msg.content_type \in {"audio", "voice", "video", "video_note"}
           THEN "handle_shazam_identify"
           ELSE IF msg.text.tag = "str" /\ ~StartsWith(msg.text.val, <<"/">>)
           THEN "handle_search_query"
           ELSE IF AdminHandler(msg) # "unhandled" THEN AdminHandler(msg)
           ELSE AdManagementHandler(state, msg) : social \in SocialAccepts(msg) }

\* str.split(sep) for a separator of one character
RECURSIVE Split(_, _)
Split(s, sep) ==
    IF \E i \in 1..Len(s) : s[i] = sep
    THEN LET i == CHOOSE k \in 1..Len(s) : s[k] = sep /\ \A j \in 1..(k - 1) : s[j] # sep
         IN <<SubSeq(s, 1, i - 1)>> \o Split(SubSeq(s, i + 1, Len(s)), sep)
    ELSE <<s>>

\* save_ad: create_ad from the state data, then state.clear()
SaveAd(u, op, button_text, button_url) ==
    /\ Cardinality(ads) < MaxSavedAds
    /\ ads' = ads \cup {AdRow(Cardinality(ads) + 1, TRUE, 0,
                               DictGet(fsm[u].data.ad_type, Str(<<"t", "e", "x", "t">>)),
                               DictGet(fsm[u].data.text, None),
                               DictGet(fsm[u].data.file_id, None),
                               button_text, button_url)}
    /\ fsm' = [fsm EXCEPT ![u] = NoDialog]
    /\ last' = Call(op, u, <<>>, Cardinality(ads) + 1, Answer("saved"), {})

\* create_text_ad, create_photo_ad, create_video_ad
CreateTypedAd(u, op, ad_type, state) ==
    IF ~IsAdmin(admins, u)
    THEN /\ last' = Call(op, u, <<>>, 0, Answer("no admin rights"), {})
         /\ UNCHANGED <<fsm, ads>>
    ELSE /\ fsm' = [fsm EXCEPT ![u] = [state |-> state,
                                       data |-> [@.data EXCEPT !.ad_type = Str(ad_type)]]]
         /\ last' = Call(op, u, <<>>, 0, Answer(""), {})
         /\ ads' = ads

\* process_ad_button
ProcessAdButton(u, msg) ==
    IF msg.text = Str(SkipText)
    THEN SaveAd(u, "process_ad_button", None, None)
    ELSE IF msg.text.tag # "str"
    THEN /\ last' = Call("process_ad_button", u, <<>>, 0, Answer("error"), {})
         /\ UNCHANGED <<fsm, ads>>
    ELSE IF Len(Split(msg.text.val, "|")) # 2
    THEN /\ last' = Call("process_ad_button", u, <<>>, 0, Answer("wrong format"), {})
         /\ UNCHANGED <<fsm, ads>>
    ELSE IF Strip(Split(msg.text.val, "|")[1]) = <<>> \/ Strip(Split(msg.text.val, "|")[2]) = <<>>
    THEN /\ last' = Call("process_ad_button", u, <<>>, 0, Answer("empty"), {})
         /\ UNCHANGED <<fsm, ads>>
    ELSE SaveAd(u, "process_ad_button", Str(Strip(Split(msg.text.val, "|")[1])),
                Str(Strip(Split(msg.text.val, "|")[2])))

\* the handlers of the ad_management router that the messages reach
AdManagement(u, msg, handler) ==
    /\ handler \in {"create_text_ad", "create_photo_ad", "create_video_ad", "process_ad_text",
                     "process_ad_photo", "process_ad_video", "process_ad_button",
                     "cancel_ad_creation", "unhandled"}
    /\ CASE handler = "create_text_ad" ->
               CreateTypedAd(u, handler, <<"t", "e", "x", "t">>, "waiting_for_text")
         [] handler = "create_photo_ad" ->
               CreateTypedAd(u, handler, <<"p", "h", "o", "t", "o">>, "waiting_for_photo")
         [] handler = "create_video_ad" ->
               CreateTypedAd(u, handler, <<"v", "i", "d", "e", "o">>, "waiting_for_video")
         [] handler = "process_ad_text" ->
               IF msg.text.tag # "str" \/ msg.text.val = <<>>
               THEN /\ last' = Call(handler, u, <<>>, 0, Answer("empty text"), {})
                    /\ UNCHANGED <<fsm, ads>>
               ELSE /\ fsm' = [fsm EXCEPT ![u] =
                                   [state |-> "waiting_for_button",
                                    data |-> [@.data EXCEPT !.text = msg.text]]]
                    /\ last' = Call(handler, u, <<>>, 0, Answer(""), {})
                    /\ ads' = ads
         [] handler \in {"process_ad_photo", "process_ad_video"} ->
               /\ fsm' = [fsm EXCEPT ![u] =
                              [state |-> "waiting_for_button",
                               data |-> [@.data EXCEPT !.file_id = Str(<<"f">>),
                                                       !.text = Str(<<>>)]]]
               /\ last' = Call(handler, u, <<>>, 0, Answer(""), {})
               /\ ads' = ads
         [] handler = "process_ad_button" -> ProcessAdButton(u, msg)
         [] handler = "cancel_ad_creation" ->
               /\ fsm' = [fsm EXCEPT ![u] = NoDialog]
               /\ last' = Call(handler, u, <<>>, 0, Answer("cancelled"), {})
               /\ ads' = ads
         [] handler = "unhandled" ->
               /\ last' = Call(handler, u, <<>>, 0, NoResult, {})
               /\ UNCHANGED <<fsm, ads>>
    /\ UNCHANGED <<rows, now, nextId, tasks>>
    /\ UNCHANGED <<chat, user_track_counter, adCalls, admins, users, broadcast>>
    /\ UNCHANGED searchVars

\* handle_search_query for a text with "http" in it, social_media_handler
\* and handle_shazam_identify: none of them reads or writes the FSM state
\* or the advertisements
EarlierRouter(u, msg, handler) ==
    /\ \/ handler = "social_media_handler"
       \/ handler = "handle_shazam_identify"
       \/ handler = "handle_search_query" /\ Contains(msg.text.val, <<"h", "t", "t", "p">>)
    /\ users' = IF handler = "handle_shazam_identify" THEN users \cup {u} ELSE users
    /\ last' = Call(handler, u, <<>>, 0, NoResult, {})
    /\ UNCHANGED <<rows, now, nextId, tasks>>
    /\ UNCHANGED <<chat, user_track_counter, adCalls, ads, admins, fsm, broadcast>>
    /\ UNCHANGED searchVars

\* what the search of a text sent during the dialog comes to: no track, or
\* an error
DialogOutcomes == {SomeList(<<>>), Raised}

\* the dispatcher hands the message of user u to a handler
SendsMessage(u, msg) ==
    \E handler \in Route(fsm[u].state, msg) :
        \/ AdManagement(u, msg, handler)
        \/ EarlierRouter(u, msg, handler)
        \/ /\ handler = "handle_search_query"
           /\ ~Contains(msg.text.val, <<"h", "t", "t", "p">>)
           /\ \E out \in DialogOutcomes : HandleSearchQuery(u, Strip(msg.text.val), out)

DialogNext == \E u \in Users, msg \in Messages : SendsMessage(u, msg)

(***************************************************************************)
(* handlers/admin.py: cmd_broadcast.  The handler is suspended at every    *)
(* call of the Bot API; new users can be stored meanwhile.  A call of the  *)
(* Bot API returns or raises.  `broadcast` holds the locals of the running *)
(* handler and, in attempts, the deliveries it has tried.                  *)
(***************************************************************************)
\* the ids of the users table
UserIds == 1..MaxUsers

\* result.scalars().all(): the rows in the order of their primary key
RECURSIVE SortedIds(_)
SortedIds(S) ==
    IF S = {} THEN <<>>
    ELSE LET m == CHOOSE x \in S : \A y \in S : x <= y
         IN <<m>> \o SortedIds(S \ {m})

\* what the command carries: a text after /broadcast, a replied-to message,
\* or neither
BroadcastContents == {"text", "reply", "none"}

\* UserRepository.get_or_create_user for a user the table does not hold
CreateUser ==
    /\ Cardinality(users) < MaxUsers
    /\ users' = users \cup {Cardinality(users) + 1}
    /\ last' = Call("create_user", Cardinality(users) + 1, <<>>, 0, NoResult, {})
    /\ UNCHANGED <<rows, now, nextId, tasks>>
    /\ UNCHANGED <<chat, user_track_counter, adCalls, ads, admins, fsm, broadcast>>
    /\ UNCHANGED searchVars

\* cmd_broadcast up to the status message: the admin check, the validation
\* of the content, the SELECT of all users and message.answer
CmdBroadcast(u, content, answered) ==
    /\ broadcast.pc = "idle"
    /\ IF ~IsAdmin(admins, u)
       THEN /\ broadcast' = broadcast
            /\ last' = Call("cmd_broadcast", u, <<>>, 0, Answer("no admin rights"), {})
       ELSE IF content = "none"
       THEN /\ broadcast' = broadcast
            /\ last' = Call("cmd_broadcast", u, <<>>, 0, Answer("no content"), {})
       ELSE /\ broadcast' = [pc |-> IF answered THEN "loop" ELSE "raised",
                             users |-> SortedIds(users), i |-> 0, sent |-> 0,
                             failed |-> 0, attempts |-> <<>>]
            /\ last' = Call("cmd_broadcast", u, <<>>, 0,
                            IF answered THEN Answer("status") ELSE Raised, {})
    /\ UNCHANGED <<rows, now, nextId, tasks>>
    /\ UNCHANGED <<chat, user_track_counter, adCalls, ads, admins, fsm, users>>
    /\ UNCHANGED searchVars

\* one pass of the loop body: copy_to or send_message, sent += 1 or, in
\* the except branch, failed += 1
AfterDelivery(b, delivered) ==
    [b EXCEPT !.i = @ + 1,
              !.sent = IF delivered THEN @ + 1 ELSE @,
              !.failed = IF delivered THEN @ ELSE @ + 1,
              !.attempts = Append(@, b.users[b.i + 1])]

\* the loop body for the next user; every tenth pass edits the status
\* message inside its own try/except, so `edited` changes nothing
Delivers(delivered, edited) ==
    /\ broadcast.pc = "loop"
    /\ broadcast.i < Len(broadcast.users)
    /\ edited \/ (broadcast.i + 1) % StatusEvery = 0
    /\ broadcast' = AfterDelivery(broadcast, delivered)
    /\ last' = Call("cmd_broadcast", broadcast.users[broadcast.i + 1], <<>>, broadcast.i + 1,
                    IF delivered THEN Answer("sent") ELSE Answer("failed"), {})
    /\ UNCHANGED <<rows, now, nextId, tasks>>
    /\ UNCHANGED <<chat, user_track_counter, adCalls, ads, admins, fsm, users>>
    /\ UNCHANGED searchVars

\* the final status_msg.edit_text, outside any try
Finishes(edited) ==
    /\ broadcast.pc = "loop"
    /\ broadcast.i = Len(broadcast.users)
    /\ broadcast' = [broadcast EXCEPT !.pc = IF edited THEN "done" ELSE "raised"]
    /\ last' = Call("cmd_broadcast", 0, <<>>, broadcast.i,
                    IF edited THEN Answer("completed") ELSE Raised, {})
    /\ UNCHANGED <<rows, now, nextId, tasks>>
    /\ UNCHANGED <<chat, user_track_counter, adCalls, ads, admins, fsm, users>>
    /\ UNCHANGED searchVars

BroadcastNext ==
    \/ CreateUser
    \/ \E u \in Users, content \in BroadcastContents, answered \in BOOLEAN :
          CmdBroadcast(u, content, answered)
    \/ \E delivered \in BOOLEAN, edited \in BOOLEAN : Delivers(delivered, edited)
    \/ \E edited \in BOOLEAN : Finishes(edited)

(***************************************************************************)
(* Specifications.                                                         *)
(***************************************************************************)
\* one call of MusicService.search
SearchSpec == SearchInit /\ [][SearchNext]_vars

\* the deduplicator and the ranker applied to merged provider lists
PipelineSpec == PipelineInit /\ [][PipelineNext]_vars

\* repository calls made one after the other
CacheSpec == CacheInit /\ [][CacheNext]_vars

\* save_search, update_offset and delete_user_cache calls of concurrent
\* request tasks, all within one reading of the clock
CacheConcSpec == CacheInit /\ [][CacheConcNext]_vars

\* get_cached_tracks and get_offset calls concurrent with save_search calls
ReadConcSpec == CacheInit /\ [][ReadConcNext]_vars

\* the handlers called one after the other
PageSpec == CacheInit /\ [][PageNext]_vars

\* one cmd_broadcast while users are being stored
BroadcastSpec == CacheInit /\ [][BroadcastNext]_vars

\* the messages of users dispatched one after the other
DialogSpec == CacheInit /\ [][DialogNext]_vars

\* /addadmin and /deladmin handled one after the other
AdminSpec == AdminInit /\ [][AdminNext]_vars

\* check_and_show_ad called by concurrent request tasks
AdSpec == CacheInit /\ [][AdNext]_vars

\* one user searching and pressing the buttons of the keyboards in the chat
ListSpec == CacheInit /\ [][ListNext]_vars

\* next_page requests of concurrent request tasks
PageConcSpec == CacheInit /\ [][PageConcNext]_vars

(***************************************************************************)
(* Properties of MusicService.search, checked under SearchSpec.            *)
(***************************************************************************)
\* C1: whenever search returns, with a limit L >= 1, it returns at most L
\* tracks, whatever the two providers answered.
C1_ResultAtMostLimit == (pc = "done" /\ limit >= 1) => Len(ret) <= limit

\* more unique tracks than the limit were found and the result was cut
C1_Witness ==
    /\ pc = "done"
    /\ limit >= 1
    /\ Len(DeduplicateTracks(AllTracks(results))) > limit
    /\ Len(ret) = limit

\* C2: the returned sequence is in non-increasing order of the relevance
\* score computed against the query, also after the cut to the limit.
C2_ResultSortedByScore ==
    pc = "done" =>
        \A i \in 1..(Len(ret) - 1) :
            CalculateScore(ret[i], query) >= CalculateScore(ret[i + 1], query)

\* the sort moved a track forward and the sorted list was then cut
C2_Witness ==
    /\ pc = "done"
    /\ Len(ret) >= 2
    /\ Len(DeduplicateTracks(AllTracks(results))) > limit
    /\ CalculateScore(ret[1], query) > CalculateScore(ret[2], query)
    /\ ret[1] # DeduplicateTracks(AllTracks(results))[1]

\* C3: no two tracks at different positions of the returned sequence have
\* normalized keys whose similarity is above 85.
C3_NoNearDuplicates ==
    pc = "done" =>
        \A i, j \in 1..Len(ret) :
            i # j => Ratio(NormKey(ret[i]), NormKey(ret[j])) <= 85

\* the two providers returned near-duplicates with different keys, and
\* search returned with room for both
C3_Witness ==
    /\ pc = "done"
    /\ limit >= 2
    /\ Len(ret) >= 1
    /\ \E i \in 1..Len(results["itunes"]), j \in 1..Len(results["deezer"]) :
          /\ NormKey(results["itunes"][i]) # NormKey(results["deezer"][j])
          /\ Ratio(NormKey(results["deezer"][j]), NormKey(results["itunes"][i])) > 85

OtherProvider(p) == IF p = "itunes" THEN "deezer" ELSE "itunes"

\* C4: when one provider call failed and the other succeeded, search raises
\* no error and returns tracks of the successful provider only, at most
\* min(that provider's count, limit) of them, ranked and deduplicated.
C4_OneProviderFails ==
    \A p \in Providers :
        (/\ pc # "gather"
         /\ outcome[p] \in Failures
         /\ outcome[OtherProvider(p)] = "ok") =>
            /\ pc = "done"
            /\ Range(ret) \subseteq Range(results[OtherProvider(p)])
            /\ Len(ret) <= Min2(Len(results[OtherProvider(p)]), Max2(limit, 0))
            /\ \A i \in 1..(Len(ret) - 1) :
                  CalculateScore(ret[i], query) >= CalculateScore(ret[i + 1], query)
            /\ \A i, j \in 1..Len(ret) :
                  i # j => Ratio(NormKey(ret[i]), NormKey(ret[j])) <= 85

\* C5: when every provider call failed, search returns the empty sequence
\* and raises no error.
C5_AllProvidersFail ==
    (pc # "gather" /\ \A p \in Providers : outcome[p] \in Failures) =>
        (pc = "done" /\ ret = <<>>)

\* one provider sent a malformed payload, the other timed out
C5_Witness ==
    /\ pc = "done"
    /\ outcome["itunes"] = "error"
    /\ outcome["deezer"] = "timeout"
    /\ limit >= 1
    /\ ret = <<>>

\* C20: search deduplicates, ranks and returns only when every provider
\* call has settled; while one call has failed and the other is pending,
\* search does not go on and the pending call can still settle.
C20_JoinAll ==
    /\ pc # "gather" => \A p \in Providers : outcome[p] # "pending"
    /\ \A p \in Providers :
          (/\ pc = "gather"
           /\ outcome[p] \in Failures
           /\ outcome[OtherProvider(p)] = "pending") =>
             /\ ~ENABLED SearchFinishes
             /\ ENABLED (IF p = "itunes" THEN DeezerSettles ELSE ItunesSettles)

\* one call timed out, the other returned tracks, and search returned them
C20_Witness ==
    /\ pc = "done"
    /\ outcome["itunes"] = "timeout"
    /\ outcome["deezer"] = "ok"
    /\ Len(results["deezer"]) >= 2
    /\ Len(ret) >= 1

\* C21: search always eventually returns.  Every provider call settles, by
\* its answer or by its 10 s timeout, so a call of search goes on as long
\* as a step is possible: it returns unless it reaches a state that is not
\* a return and has no step (the code after the gather runs as soon as
\* the gather is done).  When it has returned, a provider whose call
\* timed out has contributed no track and the result is the ranked,
\* deduplicated, capped list of the other provider's tracks.
C21_AlwaysReturns ==
    /\ \/ pc = "done"
       \/ ENABLED ItunesSettles
       \/ ENABLED DeezerSettles
       \/ pc = "gather" /\ GatherDone(outcome)
    /\ pc = "done" =>
          \A p \in Providers :
             outcome[p] = "timeout" =>
                /\ results[p] = <<>>
                /\ ret = SliceTo(SortByRelevance(
                                    DeduplicateTracks(results[OtherProvider(p)]), query),
                                 limit)

\* C22: a call of search with limit <= 0 fails at once: no provider call
\* of it settles and it never returns a track sequence.
C22_NonPositiveLimitRejected ==
    limit <= 0 =>
        /\ pc # "done"
        /\ \A p \in Providers : outcome[p] = "pending"

\* C23: every Track a provider coroutine has built from an item has a title
\* and an artist that are non-empty strings, the sentinel "Unknown" standing
\* in for a missing, empty or null value.
C23_TitleArtistNonEmpty ==
    \A p \in Providers :
        \A i \in 1..Len(results[p]) :
            /\ results[p][i].title.tag = "str"
            /\ results[p][i].title.val # <<>>
            /\ results[p][i].artist.tag = "str"
            /\ results[p][i].artist.val # <<>>

\* the tracks of a list that carry the source tag of provider p
FromProvider(tracks, p) ==
    LET Tagged(t) == t.source = Str(IF p = "itunes" THEN <<"i", "t", "u", "n", "e", "s">>
                                    ELSE <<"d", "e", "e", "z", "e", "r">>)
    IN SelectSeq(tracks, Tagged)

\* C29: once both provider calls have settled, in whichever order, the
\* tracks of each provider stand in the merged list in the order of the list
\* the provider's coroutine returned.
C29_ProviderOrderKept ==
    GatherDone(outcome) =>
        \A p \in Providers : FromProvider(AllTracks(results), p) = results[p]

\* Deezer settled before iTunes, each with two different tracks, and search
\* has returned
C29_Witness ==
    /\ pc = "done"
    /\ settled = <<"deezer", "itunes">>
    /\ \A p \in Providers : Len(results[p]) = 2 /\ results[p][1] # results[p][2]

(***************************************************************************)
(* Properties of _deduplicate_tracks and _sort_by_relevance, checked under *)
(* PipelineSpec.                                                           *)
(***************************************************************************)
RECURSIVE IsSubsequence(_, _)
IsSubsequence(ys, xs) ==
    IF ys = <<>> THEN TRUE
    ELSE IF xs = <<>> THEN FALSE
    ELSE IF Head(ys) = Head(xs) THEN IsSubsequence(Tail(ys), Tail(xs))
    ELSE IsSubsequence(ys, Tail(xs))

Similarity(a, b) == Ratio(NormKey(a), NormKey(b))

\* _deduplicate_tracks has returned ret for the argument last.tracks
Deduplicated == last.op = "_deduplicate_tracks" /\ pc \in {"unique", "unique again"}

\* _sort_by_relevance has returned ret for the arguments last.tracks, query
Ranked == last.op = "_sort_by_relevance" /\ pc \in {"sorted", "sorted again"}

\* C24: the value of _deduplicate_tracks is a subsequence of its argument,
\* it begins with the first track of the argument, and every track of the
\* argument is in it or is a near-duplicate of an earlier track that is.
C24_DedupKeepsFirstSeen ==
    Deduplicated =>
        /\ IsSubsequence(ret, last.tracks)
        /\ last.tracks # <<>> => ret # <<>> /\ ret[1] = last.tracks[1]
        /\ \A i \in 1..Len(last.tracks) :
              \E j \in 1..i :
                 /\ last.tracks[j] \in Range(ret)
                 /\ j = i \/ Similarity(last.tracks[i], last.tracks[j]) > SimilarityThreshold

\* a near-duplicate that equals no kept track was dropped from between two
\* kept tracks
C24_Witness ==
    /\ Deduplicated
    /\ Len(ret) >= 2
    /\ \E i \in 2..(Len(last.tracks) - 1) :
          /\ last.tracks[i] \notin Range(ret)
          /\ last.tracks[i + 1] \in Range(ret)

\* C25: _deduplicate_tracks applied to its own value returns that value.
C25_DedupIdempotent ==
    pc = "unique again" => ret = last.tracks

\* the first application had dropped a track and kept at least two
C25_Witness ==
    /\ pc = "unique again"
    /\ Len(ret) >= 2
    /\ Len(AllTracks(results)) > Len(ret)

Score(t) == CalculateScore(t, query)

Count(s, t) == Cardinality({i \in 1..Len(s) : s[i] = t})

Position(s, t) == CHOOSE i \in 1..Len(s) : s[i] = t

\* C26: _sort_by_relevance does not raise, and its value holds the tracks
\* of its argument, each as many times, in descending order of score, tracks
\* of equal score in the order of the argument.
C26_RankerStablePermutation ==
    last.op = "_sort_by_relevance" =>
        /\ Ranked
        /\ Len(ret) = Len(last.tracks)
        /\ \A t \in Range(last.tracks) \cup Range(ret) : Count(ret, t) = Count(last.tracks, t)
        /\ \A i, j \in 1..Len(ret) : i < j => Score(ret[i]) >= Score(ret[j])
        /\ \A i, j \in 1..Len(last.tracks) :
              (/\ i < j
               /\ last.tracks[i] # last.tracks[j]
               /\ Score(last.tracks[i]) = Score(last.tracks[j])) =>
                 Position(ret, last.tracks[i]) < Position(ret, last.tracks[j])

\* the argument held two tracks of equal score after a track of lower score
C26_Witness ==
    /\ Ranked
    /\ ret # last.tracks
    /\ \E i, j \in 1..Len(last.tracks) :
          /\ i < j
          /\ Score(last.tracks[i]) = Score(last.tracks[j])
          /\ Score(last.tracks[1]) < Score(last.tracks[i])

Similarities(t) ==
    {PartialRatio(Lower(query), Lower(t.title.val)),
     PartialRatio(Lower(query), Lower(t.artist.val)),
     PartialRatio(Lower(query), Lower(t.artist.val) \o <<" ">> \o Lower(t.title.val))}

QueryInTitleOrArtist(t) ==
    \/ Contains(Lower(t.title.val), Lower(query))
    \/ Contains(Lower(t.artist.val), Lower(query))

RECURSIVE AcceptedUpTo(_, _)
AcceptedUpTo(tracks, i) ==
    IF i = 0 THEN {}
    ELSE LET before == AcceptedUpTo(tracks, i - 1)
         IN IF \E j \in before : Similarity(tracks[i], tracks[j]) > 85
            THEN before
            ELSE before \cup {i}

RECURSIVE TracksAt(_, _, _)
TracksAt(tracks, i, positions) ==
    IF i > Len(tracks) THEN <<>>
    ELSE (IF i \in positions THEN <<tracks[i]>> ELSE <<>>) \o TracksAt(tracks, i + 1, positions)

SameTitleAndArtist(a, b) ==
    /\ Strip(Lower(a.title.val)) = Strip(Lower(b.title.val))
    /\ Strip(Lower(a.artist.val)) = Strip(Lower(b.artist.val))

\* C30: _deduplicate_tracks drops exactly the tracks whose key has similarity
\* above 85 to a key accepted before; a track whose greatest similarity is 85
\* is kept, and a track with the title and artist of an earlier one, up to
\* letter case and surrounding whitespace, is dropped.
C30_DropsAboveThresholdOnly ==
    Deduplicated =>
        LET tracks == last.tracks
            kept == AcceptedUpTo(tracks, Len(tracks))
        IN /\ ret = TracksAt(tracks, 1, kept)
           /\ \A i \in 1..Len(tracks) :
                 LET before == AcceptedUpTo(tracks, i - 1)
                 IN (/\ before # {}
                     /\ SetMax({Similarity(tracks[i], tracks[j]) : j \in before}) = 85) =>
                        i \in kept
           /\ \A i, j \in 1..Len(tracks) :
                 i < j /\ SameTitleAndArtist(tracks[i], tracks[j]) => j \notin kept

\* a track at similarity 85 from the one kept before it was kept, and a track
\* differing from an earlier one in case and whitespace only was dropped
C30_Witness ==
    /\ Deduplicated
    /\ \E i, j \in 1..Len(ret) :
          i < j /\ Similarity(ret[i], ret[j]) = 85
    /\ \E i, j \in 1..Len(last.tracks) :
          /\ i < j
          /\ last.tracks[i] # last.tracks[j]
          /\ SameTitleAndArtist(last.tracks[i], last.tracks[j])
          /\ last.tracks[j] \notin Range(ret)

(***************************************************************************)
(* Properties of SearchCacheRepository.  A session is expired when its age *)
(* now - created_at exceeds the expiry window.                             *)
(***************************************************************************)
Age(c) == now - c.created_at

\* C6: right after save_search(u, q, tracks) returned, get_cached_tracks(u)
\* returns exactly tracks and get_offset(u) returns 0, whatever rows the
\* user had before.
C6_SaveSearchReplaces ==
    last.op = "save_search" =>
        /\ GetCachedTracks(rows, last.user, now) = {SomeList(last.tracks)}
        /\ GetOffset(rows, last.user, now) = {IntResult(0)}

\* the call replaced a session with other tracks and an advanced cursor
C6_Witness ==
    /\ last.op = "save_search"
    /\ \E c \in last.caches :
          /\ c.current_offset > 0
          /\ c.results # DumpTracks(last.tracks)
    /\ Cardinality(UserRows(rows, last.user)) = 1

\* C7: in every state, also between the steps of two concurrent save_search
\* calls, a user has at most one session row that is not expired.
C7_AtMostOneLiveSession ==
    \A u \in Users :
        Cardinality({c \in UserRows(rows, u) : Age(c) <= ExpiryWindow}) <= 1

\* C8: get_cached_tracks(u) returns the session's track list whenever the
\* user has a session of age <= 1 hour, an age of exactly 1 hour included,
\* and None otherwise.
C8_CachedTracksUpToOneHour ==
    last.op = "get_cached_tracks" =>
        LET live == {c \in UserRows(rows, last.user) : Age(c) <= ExpiryWindow}
        IN IF live = {} THEN last.result = None
           ELSE \E c \in live : last.result = SomeList(LoadTracks(c.results))

\* C9: a user whose only rows are older than the expiry window gets None
\* from get_cached_tracks and 0 from get_offset, whatever cursor the rows
\* hold: the results of a user who has no row.
C9_ExpiredLooksAbsent ==
    (/\ last.op \in {"get_cached_tracks", "get_offset"}
     /\ UserRows(rows, last.user) # {}
     /\ \A c \in UserRows(rows, last.user) : Age(c) > ExpiryWindow) =>
        /\ last.op = "get_cached_tracks" =>
              last.result = None /\ last.result \in GetCachedTracks({}, last.user, now)
        /\ last.op = "get_offset" =>
              last.result = IntResult(0) /\ last.result \in GetOffset({}, last.user, now)

\* get_offset returned for a user whose expired row holds a cursor above 0
C9_Witness ==
    /\ last.op = "get_offset"
    /\ \E c \in UserRows(rows, last.user) : Age(c) > ExpiryWindow /\ c.current_offset > 0
    /\ \A c \in UserRows(rows, last.user) : Age(c) > ExpiryWindow

\* C10: update_offset(u, n) for a user with no row, or with expired rows
\* only, leaves the table as it is, and get_offset(u) then returns 0.
C10_UpdateOffsetNoSession ==
    [][(/\ last'.op = "update_offset"
        /\ UpdateOffset(last'.user, last'.offset)
        /\ \A c \in UserRows(rows, last'.user) : Age(c) > ExpiryWindow) =>
           /\ rows' = rows
           /\ GetOffset(rows', last'.user, now') = {IntResult(0)}]_vars

\* update_offset returned, with an offset above 0, for a user whose only
\* row is expired
C10_Witness ==
    /\ last.op = "update_offset"
    /\ last.offset > 0
    /\ UserRows(rows, last.user) # {}
    /\ \A c \in UserRows(rows, last.user) : Age(c) > ExpiryWindow

\* C11: for a user with an active session (age <= 1 hour), right after
\* update_offset(u, n) returned, get_offset(u) returns n and
\* get_cached_tracks(u) returns the track list it returned before the update.
C11_UpdateThenGetOffset ==
    [][(/\ last'.op = "update_offset"
        /\ UpdateOffset(last'.user, last'.offset)
        /\ \E c \in UserRows(rows, last'.user) : Age(c) <= ExpiryWindow) =>
           /\ GetOffset(rows', last'.user, now') = {IntResult(last'.offset)}
           /\ GetCachedTracks(rows', last'.user, now') =
                 {SomeList(LoadTracks(c.results)) : c \in UserRows(rows, last'.user)}]_vars

\* C12: a step of save_search, update_offset or delete_user_cache changes
\* what get_cached_tracks and get_offset return for a user only when the
\* call is made for that user, however the calls of the tasks interleave.
C12_SessionIsolation ==
    [][\A b \in Users :
          (/\ now' = now
           /\ rows' # rows
           /\ \/ GetCachedTracks(rows', b, now') # GetCachedTracks(rows, b, now)
              \/ GetOffset(rows', b, now') # GetOffset(rows, b, now)) =>
             \E t \in TaskIds : tasks[t].user = b /\ tasks'[t] # tasks[t]]_vars

\* save_search for one user returned while a delete_user_cache for the same
\* user was between its SELECT and its commit; the other user holds a live
\* session with an advanced cursor
C12_Witness ==
    /\ last.op = "save_search"
    /\ \E t \in TaskIds : tasks[t].pc = "remove" /\ tasks[t].user = last.user
    /\ \E b \in Users \ {last.user} :
          /\ GetOffset(rows, b, now) # {IntResult(0)}
          /\ GetCachedTracks(rows, b, now) # {None}

\* C13: when cleanup_old_cache has completed, no stored row is older than
\* the expiry window, and every row get_user_cache returned before the call
\* is still stored, unchanged, and is what get_user_cache returns after it.
C13_CleanupRemovesOnlyExpired ==
    [][(last'.op = "cleanup_old_cache" /\ CallCleanupOldCache) =>
          /\ \A c \in rows' : now' - c.created_at <= ExpiryWindow
          /\ \A u \in Users :
                /\ GetUserCache(rows, u, now) \subseteq rows'
                /\ GetUserCache(rows', u, now') = GetUserCache(rows, u, now)
                /\ GetCachedTracks(rows', u, now') = GetCachedTracks(rows, u, now)
                /\ GetOffset(rows', u, now') = GetOffset(rows, u, now)]_vars

\* cleanup_old_cache removed an expired row and left another user's live
\* session, with its advanced cursor, in the table
C13_Witness ==
    /\ last.op = "cleanup_old_cache"
    /\ last.caches # {}
    /\ \E u \in Users :
          /\ GetCachedTracks(rows, u, now) # {None}
          /\ GetOffset(rows, u, now) # {IntResult(0)}

\* the session with primary key id can be returned by get_user_cache, and so
\* read through get_cached_tracks and get_offset
Observable(id, rs, t) == \E c \in rs : c.id = id /\ c \in GetUserCache(rs, c.user_id, t)

\* C14: a session that is not observable becomes observable only in the
\* step of a save_search for its user that creates it; hence a session that
\* has become absent (expired, cleaned up, replaced or deleted) is never
\* observable again.
C14_AbsentActiveAbsent ==
    [][\A c \in rows' :
          (~Observable(c.id, rows, now) /\ Observable(c.id, rows', now')) =>
             /\ last'.op = "save_search"
             /\ last'.user = c.user_id
             /\ c.id = nextId
             /\ nextId' > nextId]_vars

\* a session was replaced or deleted, another one is expired and still in
\* the table, and get_cached_tracks returned None for its user
C14_Witness ==
    /\ last.op = "get_cached_tracks"
    /\ last.result = None
    /\ UserRows(rows, last.user) # {}
    /\ \E id \in 1..(nextId - 1) : id \notin {c.id : c \in rows}

(***************************************************************************)
(* Properties of the handlers that page through a session.                 *)
(***************************************************************************)
\* C15: while a session is active (age <= 1 hour), next_page, prev_page,
\* cleanup_old_cache and get_cached_tracks leave its row in the table with
\* the same track list, query and creation time, and get_cached_tracks for
\* its user returns exactly the sequence that was given to save_search.
C15_TrackListNeverMutated ==
    [][\A c \in rows :
          (/\ Age(c) <= ExpiryWindow
           /\ last'.op \in {"next_page", "prev_page", "cleanup_old_cache",
                            "get_cached_tracks"}) =>
             /\ \E d \in rows' :
                   /\ d.id = c.id
                   /\ d.results = c.results
                   /\ d.query = c.query
                   /\ d.created_at = c.created_at
             /\ (last'.op = "get_cached_tracks" /\ last'.user = c.user_id) =>
                   \E tracks \in PageLists :
                      c.results = DumpTracks(tracks) /\ last'.result = SomeList(tracks)]_vars

\* C16: every stored cursor satisfies 0 <= cursor <= len(track list), and
\* for a user with an active session (age <= 1 hour) next_page adds the page
\* size when the new cursor is an index inside the list and leaves the
\* cursor unchanged otherwise, and prev_page subtracts the page size, not
\* going below 0.
C16_CursorStaysInList ==
    [][/\ \A c \in rows' : 0 <= c.current_offset /\ c.current_offset <= Len(c.results)
       /\ \A c \in rows :
             (/\ Age(c) <= ExpiryWindow
              /\ last'.op \in {"next_page", "prev_page"}
              /\ last'.user = c.user_id) =>
                \E d \in rows' :
                   /\ d.id = c.id
                   /\ last'.op = "next_page" =>
                         d.current_offset =
                            IF c.current_offset + MAX_RESULTS_PER_PAGE < Len(c.results)
                            THEN c.current_offset + MAX_RESULTS_PER_PAGE
                            ELSE c.current_offset
                   /\ last'.op = "prev_page" =>
                         d.current_offset =
                            Max2(0, c.current_offset - MAX_RESULTS_PER_PAGE)]_vars

\* C17: when handle_search_query has finished for a user who held a session,
\* that earlier session is no longer observable, whether or not the new
\* search found tracks.
C17_NewSearchInvalidates ==
    last.op = "handle_search_query" =>
        \A c \in last.caches : ~Observable(c.id, rows, now)

(***************************************************************************)
(* Properties of calls that run concurrently.                              *)
(***************************************************************************)
\* C18: a get_cached_tracks or get_offset that runs while a save_search for
\* the same user is replacing an active session finds a session, the old
\* one or the new one.  (Less than the expiry window has passed since the
\* table was empty, so every row save_search selected was an active one.)
C18_SaveSearchAtomic ==
    (/\ last.op \in {"get_cached_tracks", "get_offset"}
     /\ now < ExpiryWindow
     /\ \E t \in TaskIds :
           /\ tasks[t].op = "save_search"
           /\ tasks[t].user = last.user
           /\ tasks[t].caches # {}) =>
        /\ last.caches # {}
        /\ last.op = "get_cached_tracks" => last.result # None

\* C19: a next_page that reports success has moved the stored cursor one
\* page beyond the value stored just before its commit, so that two
\* interleaved next_page requests of one user that both report success
\* leave the cursor two pages beyond its initial value.
C19_NoLostCursorUpdate ==
    [][\A t \in TaskIds :
          (/\ tasks[t].op = "next_page"
           /\ tasks[t].pc = "write"
           /\ tasks'[t].pc = "idle"
           /\ last'.result = Answer("")) =>
             \A c \in rows :
                c.id \in tasks[t].caches =>
                   \E d \in rows' :
                      /\ d.id = c.id
                      /\ d.current_offset = c.current_offset + MAX_RESULTS_PER_PAGE]_vars

\* the nine fields of Track
TrackFields ==
    {"title", "artist", "duration", "preview_url", "audio_url", "album", "artwork_url",
     "track_id", "source"}

\* C28: get_cached_tracks(u) called right after save_search(u, q, tracks)
\* returns a list as long as tracks whose i-th track equals the i-th of
\* tracks in each of the nine fields, a None field coming back as None.
C28_CacheRoundTrip ==
    [][(/\ last.op = "save_search"
        /\ last'.op = "get_cached_tracks"
        /\ last'.user = last.user) =>
           /\ last'.result.tag = "list"
           /\ Len(last'.result.val) = Len(last.tracks)
           /\ \A i \in 1..Len(last.tracks) :
                 /\ DOMAIN last'.result.val[i] = TrackFields
                 /\ \A f \in TrackFields : last'.result.val[i][f] = last.tracks[i][f]]_vars

\* get_cached_tracks returned, from a row saved at this reading of the clock,
\* two tracks, one with a preview_url and one without
C28_Witness ==
    /\ last.op = "get_cached_tracks"
    /\ last.result.tag = "list"
    /\ \A c \in last.caches : c.created_at = now
    /\ \E i, j \in 1..Len(last.result.val) :
          /\ last.result.val[i].preview_url = None
          /\ last.result.val[j].preview_url.tag = "str"
          /\ last.result.val[i].album = None

(***************************************************************************)
(* The list keyboards of one user.                                         *)
(***************************************************************************)
\* the places of the user's chat where the step replaced the keyboard
Edited(u) == {m \in 1..Len(chat[u]) : chat'[u][m] # chat[u][m]}

\* the keyboard was built from the search that was saved last
OfLatestSearch(kb) == kb.session = nextId - 1

\* C32: for one user acting sequentially without a new search, the list
\* page shown after pressing next_page starts no later than the index just
\* past the last track shown on the page where the button was pressed.
C32_PagingNeverSkips ==
    [][\A u \in Users : \A m \in Edited(u) :
          (/\ last'.op = "next_page"
           /\ chat[u][m].kind = "list"
           /\ OfLatestSearch(chat[u][m]))
          => chat'[u][m].offset <= chat[u][m].offset + Len(chat[u][m].shown)]_vars

\* C33: send_selected_track with index i taken from a displayed list
\* keyboard either sends the track that was at index i when that keyboard
\* was built or reports track-not-found, never a different track: the
\* track of a successful send is the one the pressed button showed.
C33_ButtonSendsShownTrack ==
    [][\A u \in Users : \A m \in Edited(u) :
          (/\ last'.op = "send_selected_track"
           /\ last'.result = Answer("")
           /\ chat[u][m].kind = "list")
          => last'.tracks = <<chat[u][m].shown[last'.offset - chat[u][m].offset + 1]>>]_vars

(***************************************************************************)
(* Advertisements.                                                         *)
(***************************************************************************)
\* C34: after every call of check_and_show_ad for a user that user's
\* counter lies in 0..SHOW_AD_AFTER_TRACKS-1; an ad lookup happens exactly
\* on every SHOW_AD_AFTER_TRACKS-th call for the same user, the counter is
\* reset to 0 at that moment whether or not an active ad exists, and calls
\* for other users never change it.
C34_AdCadence ==
    /\ \A u \in DOMAIN user_track_counter :
          /\ user_track_counter[u] \in 0..(SHOW_AD_AFTER_TRACKS - 1)
          /\ user_track_counter[u] = adCalls[u] % SHOW_AD_AFTER_TRACKS
    /\ last.op = "check_and_show_ad" =>
          (last.result # NoResult <=> adCalls[last.user] % SHOW_AD_AFTER_TRACKS = 0)

\* the tenth call for user 1 looked an ad up, found none and reset the
\* counter, while user 2 is in the middle of a cycle
C34_Witness ==
    /\ last.op = "check_and_show_ad"
    /\ last.user = 1
    /\ last.result = Answer("no ad")
    /\ adCalls[1] = 2 * SHOW_AD_AFTER_TRACKS
    /\ user_track_counter[1] = 0
    /\ 2 \in DOMAIN user_track_counter
    /\ user_track_counter[2] = 3

\* C35: each display_ad call increments the ad's impressions by exactly 1;
\* increments made by concurrently running displays are never lost.
C35_ImpressionsNeverLost ==
    [][last'.op = "display_ad" =>
          \A a \in ads : a.id \in last'.caches =>
              \E b \in ads' : b.id = a.id /\ b.impressions = a.impressions + 1]_vars

(***************************************************************************)
(* The admins table.                                                       *)
(***************************************************************************)
\* C36: /addadmin and /deladmin issued by a user who is neither in
\* Config.SUPER_ADMIN_IDS nor a stored admin with is_super_admin leave the
\* admins table unchanged, and /deladmin never removes the issuer's own row
\* or the row of an id in Config.SUPER_ADMIN_IDS.
C36_OnlySuperAdminsChangeAdmins ==
    [][last'.op \in {"cmd_add_admin", "cmd_del_admin"} =>
          /\ (/\ last'.user \notin SUPER_ADMIN_IDS
              /\ ~\E a \in admins : a.id = last'.user /\ a.is_super_admin)
             => admins' = admins
          /\ last'.op = "cmd_del_admin" =>
                \A a \in admins \ admins' :
                    a.id # last'.user /\ a.id \notin SUPER_ADMIN_IDS]_vars

\* a stored super admin has removed a regular admin while the rows of the
\* issuer and of a config super admin are in the table
C36_Witness ==
    /\ last.op = "cmd_del_admin"
    /\ last.user = 2
    /\ last.result = Answer("removed")
    /\ last.offset = 3
    /\ admins = {Admin(1, FALSE), Admin(2, TRUE)}

(***************************************************************************)
(* The ad-creation dialog.                                                 *)
(***************************************************************************)
WaitingStates ==
    {"waiting_for_text", "waiting_for_photo", "waiting_for_video", "waiting_for_button"}

\* C37: sending /cancel while in any ad-creation state clears the dialog
\* state, and no advertisement is created from that dialog.
C37_CancelClearsDialog ==
    [][\A u \in Users :
          (fsm[u].state \in WaitingStates /\ SendsMessage(u, TextMessage(CancelText)))
          => fsm'[u] = NoDialog /\ ads' = ads]_vars

\* the reply a state waits for
Awaited(state) ==
    CASE state = "waiting_for_text" -> TextMessage(PlainText)
      [] state = "waiting_for_photo" -> PhotoMessage
      [] state = "waiting_for_video" -> VideoMessage
      [] state = "waiting_for_button" -> TextMessage(ButtonText)

\* the handler of a state
StateHandler(state) ==
    CASE state = "waiting_for_text" -> "process_ad_text"
      [] state = "waiting_for_photo" -> "process_ad_photo"
      [] state = "waiting_for_video" -> "process_ad_video"
      [] state = "waiting_for_button" -> "process_ad_button"

\* C38: while an admin is in an ad-creation state, the reply that state
\* waits for is handled by that state's handler and advances the dialog
\* towards save_ad, rather than being consumed by the search, social or
\* Shazam handlers.
C38_AwaitedReplyReachesStateHandler ==
    [][\A u \in Users :
          (fsm[u].state \in WaitingStates /\ SendsMessage(u, Awaited(fsm[u].state)))
          => /\ last'.op = StateHandler(fsm[u].state)
             /\ IF fsm[u].state = "waiting_for_button"
                THEN fsm'[u] = NoDialog /\ Cardinality(ads') = Cardinality(ads) + 1
                ELSE fsm'[u].state = "waiting_for_button"]_vars

(***************************************************************************)
(* Broadcast.                                                              *)
(***************************************************************************)
\* cmd_broadcast has ended, by its return or by an exception
BroadcastEnded == broadcast.pc \in {"done", "raised"}

\* C39: cmd_broadcast by an admin attempts delivery to every stored user
\* exactly once and terminates with sent + failed equal to the number of
\* users; a delivery failure for one user never stops delivery to the users
\* after it.
C39_BroadcastReachesEveryUser ==
    BroadcastEnded =>
        /\ broadcast.attempts = broadcast.users
        /\ broadcast.sent + broadcast.failed = Len(broadcast.users)

====
